---- MODULE Spec2Model ----
(***************************************************************************)
(* Conversation-state store (src/lib/store.ts) and chat orchestrator       *)
(* (src/components/chat.tsx) of psyche-siren, with the response validator   *)
(* and safe-redirect selector of src/lib/utils.ts.                          *)
(*                                                                         *)
(* Text is modelled as TLA+ strings, character by character: includes,     *)
(* toLowerCase, substring and regex-literal replacement are computed on    *)
(* the characters, as the JavaScript does.                                 *)
(***************************************************************************)
EXTENDS Integers, Sequences, FiniteSets, TLC

(***************************************************************************)
(* String primitives                                                       *)
(***************************************************************************)

\* String.prototype.toLowerCase on one character (ASCII letters)
LowerChar(c) ==
  CASE c = "A" -> "a" [] c = "B" -> "b" [] c = "C" -> "c" [] c = "D" -> "d"
    [] c = "E" -> "e" [] c = "F" -> "f" [] c = "G" -> "g" [] c = "H" -> "h"
    [] c = "I" -> "i" [] c = "J" -> "j" [] c = "K" -> "k" [] c = "L" -> "l"
    [] c = "M" -> "m" [] c = "N" -> "n" [] c = "O" -> "o" [] c = "P" -> "p"
    [] c = "Q" -> "q" [] c = "R" -> "r" [] c = "S" -> "s" [] c = "T" -> "t"
    [] c = "U" -> "u" [] c = "V" -> "v" [] c = "W" -> "w" [] c = "X" -> "x"
    [] c = "Y" -> "y" [] c = "Z" -> "z" [] OTHER -> c

\* String.prototype.toLowerCase (by halves, to keep the evaluation shallow)
RECURSIVE toLowerCase(_)
toLowerCase(s) ==
  IF Len(s) = 0 THEN ""
  ELSE IF Len(s) = 1 THEN LowerChar(s)
  ELSE LET h == Len(s) \div 2
       IN toLowerCase(SubSeq(s, 1, h)) \o toLowerCase(SubSeq(s, h + 1, Len(s)))

\* String.prototype.includes
includes(s, w) ==
  \E i \in 1..(Len(s) - Len(w) + 1) : SubSeq(s, i, i + Len(w) - 1) = w

\* String.prototype.substring(0, n)
substring0(s, n) == IF Len(s) <= n THEN s ELSE SubSeq(s, 1, n)

\* String.prototype.replace(/pat/gi, rep) for a literal pattern: leftmost
\* non-overlapping matches, compared without regard to case
RECURSIVE replaceAllCI(_, _, _)
replaceAllCI(s, pat, rep) ==
  LET lower == toLowerCase(s)
      lpat == toLowerCase(pat)
      hits == {i \in 1..(Len(s) - Len(pat) + 1) : SubSeq(lower, i, i + Len(pat) - 1) = lpat}
  IN IF hits = {} THEN s
     ELSE LET i == CHOOSE h \in hits : \A g \in hits : h <= g
          IN SubSeq(s, 1, i - 1) \o rep
             \o replaceAllCI(SubSeq(s, i + Len(pat), Len(s)), pat, rep)

\* response.match(/(a|b|...)/gi) is non-null
matchesAnyCI(s, alts) == \E k \in 1..Len(alts) : includes(toLowerCase(s), toLowerCase(alts[k]))

\* [...new Set(found)]: first occurrences, in order
RECURSIVE DedupeFrom(_, _)
DedupeFrom(seq, i) ==
  IF i > Len(seq) THEN <<>>
  ELSE (IF \E j \in 1..(i - 1) : seq[j] = seq[i] THEN <<>> ELSE <<seq[i]>>)
       \o DedupeFrom(seq, i + 1)
Dedupe(seq) == DedupeFrom(seq, 1)

\* words.forEach(word => { if (lower.includes(word)) found.push(word) })
RECURSIVE foundIn(_, _)
foundIn(lower, words) ==
  IF words = <<>> THEN <<>>
  ELSE (IF includes(lower, Head(words)) THEN <<Head(words)>> ELSE <<>>)
       \o foundIn(lower, Tail(words))

Min(a, b) == IF a < b THEN a ELSE b
Max(a, b) == IF a > b THEN a ELSE b

(***************************************************************************)
(* Pattern extractors (store.ts)                                           *)
(***************************************************************************)

emotionalWords ==
  << "anxious", "scared", "excited", "overwhelmed", "peaceful", "frustrated",
     "lonely", "connected", "vulnerable", "safe", "trapped", "free",
     "angry", "sad", "joyful", "numb", "intense", "calm", "hopeful",
     "devastated", "conflicted", "empowered", "lost", "grounded" >>

patterns ==
  << "childhood", "family", "parents", "trauma", "anxiety", "fear",
     "control", "safety", "validation", "creativity", "expression",
     "vulnerability", "attachment", "abandonment", "criticism", "perfectionism",
     "identity", "healing", "growth", "development", "relationship",
     "emotional regulation", "self-worth", "boundaries", "trust" >>

extractEmotionalMarkers(text) ==
  Dedupe(foundIn(toLowerCase(text), emotionalWords))

extractPsychologicalPatterns(text) ==
  Dedupe(foundIn(toLowerCase(text), patterns))

(***************************************************************************)
(* Response validator, corrector and safe redirect (utils.ts, the variant  *)
(* imported by chat.tsx)                                                   *)
(***************************************************************************)

personalExperienceVerbs ==
  << "have", "notice", "experience", "gravitate", "feel", "prefer", "tend to",
     "usually", "often", "sometimes", "find", "see", "observe", "think",
     "believe", "remember", "know from experience" >>

analyticalLanguage ==
  << "this suggests", "this indicates", "this pattern", "research shows",
     "many people", "psychological frameworks", "personality research",
     "cultural psychology" >>

frameworks ==
  << "MBTI", "Big Five", "attachment", "cultural", "personality",
     "psychological", "framework", "pattern", "style", "trait" >>

CriticalPersonal == "CRITICAL: AI claiming personal experiences"
WarnAnalytical == "WARNING: Missing professional psychological analysis language"
WarnFrameworks == "WARNING: Missing psychological frameworks"
WarnTooLong == "WARNING: Response too long for conversational analysis"
WarnNoQuestion == "WARNING: Missing strategic follow-up question"

validatePsychologyAnalysis(response, userMessage) ==
  LET lower == toLowerCase(response)
      personalExperience ==
        \E k \in 1..Len(personalExperienceVerbs) :
          includes(lower, "i " \o personalExperienceVerbs[k])
      hasAnalyticalLanguage == matchesAnyCI(response, analyticalLanguage)
      hasFrameworks == matchesAnyCI(response, frameworks)
      questionCount == Cardinality({i \in 1..Len(response) : SubSeq(response, i, i) = "?"})
  IN (IF personalExperience THEN <<CriticalPersonal>> ELSE <<>>)
     \o (IF ~hasAnalyticalLanguage /\ Len(response) > 100 THEN <<WarnAnalytical>> ELSE <<>>)
     \o (IF ~hasFrameworks /\ Len(response) > 100 THEN <<WarnFrameworks>> ELSE <<>>)
     \o (IF Len(response) > 400 THEN <<WarnTooLong>> ELSE <<>>)
     \o (IF Len(response) > 100 /\ questionCount = 0 THEN <<WarnNoQuestion>> ELSE <<>>)

\* violations.filter(v => v.includes('CRITICAL'))
IsCritical(v) == includes(v, "CRITICAL")
criticalOf(violations) == SelectSeq(violations, IsCritical)

correctAnalysisLanguage(response) ==
  LET r1 == replaceAllCI(response, "I've noticed that", "This suggests that")
      r2 == replaceAllCI(r1, "I tend to", "You appear to")
      r3 == replaceAllCI(r2, "I gravitate towards", "You seem drawn to")
      r4 == replaceAllCI(r3, "I usually", "You typically")
      r5 == replaceAllCI(r4, "I find that", "Research indicates that")
      r6 == replaceAllCI(r5, "I see", "This analysis reveals")
      r7 == replaceAllCI(r6, "I think", "This suggests")
      r8 == replaceAllCI(r7, "I believe", "The pattern indicates")
      r9 == replaceAllCI(r8, "I've experienced", "Many people experience")
      r10 == replaceAllCI(r9, "You are", "Your psychological profile suggests you are")
  IN replaceAllCI(r10, "This means", "From a psychological perspective, this indicates")

SAFE_REDIRECTS ==
  [ cultural_analysis |-> "What aspects of your cultural background most influence your creative expression?",
    personality_insight |-> "What personality patterns do you recognize in your creative process?",
    creative_psychology |-> "How do you see your creative work serving your psychological needs?",
    musical_analysis |-> "What psychological role does music play in your emotional regulation?",
    collaboration_patterns |-> "What patterns do you notice in how you work with creative partners?",
    identity_formation |-> "How has your creative identity evolved over time?",
    attachment_exploration |-> "How do you typically handle criticism or feedback on your creative work?",
    cultural_expression |-> "What aspects of your cultural identity show up most in your artistic choices?" ]

createSafeAnalysisResponse(userMessage, violations) ==
  LET lowerMessage == toLowerCase(userMessage)
      has(w) == includes(lowerMessage, w)
  IN IF has("cultur") \/ has("background") \/ has("identity") THEN SAFE_REDIRECTS.cultural_analysis
     ELSE IF has("music") \/ has("song") \/ has("sound") THEN SAFE_REDIRECTS.musical_analysis
     ELSE IF has("creative") \/ has("art") \/ has("express") THEN SAFE_REDIRECTS.creative_psychology
     ELSE IF has("work") \/ has("collaborat") \/ has("partner") THEN SAFE_REDIRECTS.collaboration_patterns
     ELSE IF has("pattern") \/ has("personality") \/ has("trait") THEN SAFE_REDIRECTS.personality_insight
     ELSE SAFE_REDIRECTS.identity_formation

\* the fixed text sendMessage writes in its catch block
errorResponse ==
  "I'm having difficulty with the analysis right now. Could you share a bit more context about what you'd like to explore?"

(***************************************************************************)
(* Response validator, quality assessment and safe redirect (utils.ts, the *)
(* variant imported by audio-upload.tsx)                                   *)
(***************************************************************************)

CriticalFabricating == "CRITICAL: AI fabricating personal media experiences"
WarnMediaDetails == "WARNING: Adding unverified media details"
WarnRoleConfusion == "WARNING: AI role confusion detected"
WarnOverreach == "WARNING: Therapeutic overreach detected"

personalExperienceClaims ==
  << "understand what you're going through", "know that feeling", "remember when",
     "felt that way", "experienced", "can relate", "have been through" >>

mediaVerbs == << "remember", "listened to", "heard", "watched", "read", "experienced" >>
mediaDeterminers == << "that", "the", "this" >>

mediaClaimPhrases ==
  << "the opening track", "that lyric", "the guitar solo", "the production",
     "the bridge", "the chorus", "scene where", "the protagonist" >>

roleConfusionVerbs == << "has", "experienced", "went through", "understands" >>

overreachPhrases == << "you need to", "you should", "I diagnose", "I recommend therapy" >>

IsDigit(c) == c \in {"0", "1", "2", "3", "4", "5", "6", "7", "8", "9"}

\* the text /chapter \d+/ matches at position i of s, or "" when it does not
RECURSIVE digitsFrom(_, _)
digitsFrom(s, i) ==
  IF i <= Len(s) /\ IsDigit(SubSeq(s, i, i)) THEN SubSeq(s, i, i) \o digitsFrom(s, i + 1)
  ELSE ""

chapterAt(s, i) ==
  IF i + 7 <= Len(s) /\ SubSeq(s, i, i + 7) = "chapter " /\ digitsFrom(s, i + 8) # ""
  THEN "chapter " \o digitsFrom(s, i + 8)
  ELSE ""

\* mediaClaims.filter(claim => !userMessage.toLowerCase().includes(claim.toLowerCase()))
\* is not empty
problematicClaims(response, userMessage) ==
  LET lower == toLowerCase(response)
      userMentionedMedia == toLowerCase(userMessage)
  IN \/ \E k \in 1..Len(mediaClaimPhrases) :
          /\ includes(lower, mediaClaimPhrases[k])
          /\ ~includes(userMentionedMedia, mediaClaimPhrases[k])
     \/ \E i \in 1..Len(lower) :
          /\ chapterAt(lower, i) # ""
          /\ ~includes(userMentionedMedia, chapterAt(lower, i))

validateResponse(response, userMessage) ==
  LET lower == toLowerCase(response)
      personalExperience ==
        \E k \in 1..Len(personalExperienceClaims) :
          includes(lower, "i " \o personalExperienceClaims[k])
      mediaFabrication ==
        \E k \in 1..Len(mediaVerbs) : \E j \in 1..Len(mediaDeterminers) :
          includes(lower, "i " \o mediaVerbs[k] \o " " \o mediaDeterminers[j])
      roleConfusion ==
        \E k \in 1..Len(roleConfusionVerbs) :
          includes(lower, "as someone who " \o roleConfusionVerbs[k])
      therapeuticOverreach == matchesAnyCI(response, overreachPhrases)
  IN (IF personalExperience THEN <<CriticalPersonal>> ELSE <<>>)
     \o (IF mediaFabrication THEN <<CriticalFabricating>> ELSE <<>>)
     \o (IF problematicClaims(response, userMessage) THEN <<WarnMediaDetails>> ELSE <<>>)
     \o (IF roleConfusion THEN <<WarnRoleConfusion>> ELSE <<>>)
     \o (IF therapeuticOverreach THEN <<WarnOverreach>> ELSE <<>>)

PSYCHOLOGICAL_REDIRECTS ==
  [ music_influence |-> "What was it about that music that created such a strong psychological connection for you? What was happening emotionally when you first encountered it?",
    creative_inspiration |-> "That creative influence sounds significant to your development. How did encountering that work shift something psychologically for you?",
    formative_experience |-> "Early creative influences often connect to deep psychological needs. What aspect of that experience felt most psychologically meaningful?",
    emotional_connection |-> "Strong responses to creative works often reveal psychological patterns. What do you think that particular connection suggests about your inner world?",
    psychological_significance |-> "From a psychological perspective, that pattern suggests several dynamics might be at play. What aspects feel most significant to you?",
    identity_formation |-> "Creative preferences often reflect psychological development. How do you think that influence shaped your sense of identity?",
    attachment_pattern |-> "The way we connect to creative works often mirrors our attachment patterns. What does your response to that tell you about your relational needs?",
    trauma_processing |-> "Sometimes creative works help us process difficult experiences. Did that piece connect to anything you were working through psychologically?" ]

createSafeRedirectResponse(userMessage, violations) ==
  LET lowerMessage == toLowerCase(userMessage)
      has(w) == includes(lowerMessage, w)
  IN IF \E v \in 1..Len(violations) : includes(violations[v], "personal experiences")
     THEN PSYCHOLOGICAL_REDIRECTS.psychological_significance
     ELSE IF has("music") \/ has("album") \/ has("song") THEN PSYCHOLOGICAL_REDIRECTS.music_influence
     ELSE IF has("creative") \/ has("art") \/ has("inspired") THEN PSYCHOLOGICAL_REDIRECTS.creative_inspiration
     ELSE IF has("childhood") \/ has("early") \/ has("family") THEN PSYCHOLOGICAL_REDIRECTS.formative_experience
     ELSE IF has("attachment") \/ has("relationship") THEN PSYCHOLOGICAL_REDIRECTS.attachment_pattern
     ELSE IF has("trauma") \/ has("difficult") \/ has("process") THEN PSYCHOLOGICAL_REDIRECTS.trauma_processing
     ELSE PSYCHOLOGICAL_REDIRECTS.emotional_connection

psychTerms == << "pattern", "psychological", "attachment", "emotional", "development" >>

\* assessResponseQuality(...).score
assessResponseQuality(response, userMessage) ==
  LET violations == validateResponse(response, userMessage)
      s1 == IF Len(violations) > 0 THEN 100 - Len(violations) * 20 ELSE 100
      hasDepth == \E k \in 1..Len(psychTerms) : includes(toLowerCase(response), psychTerms[k])
      s2 == IF ~hasDepth /\ Len(response) > 100 THEN s1 - 10 ELSE s1
      hasQuestions == includes(response, "?")
      s3 == IF ~hasQuestions /\ Len(response) > 50 THEN s2 - 5 ELSE s2
  IN Max(0, s3)

(***************************************************************************)
(* Bounds of the model                                                     *)
(***************************************************************************)

MaxSessions == 2        \* sessions created in one run
MaxListedSessions == 3  \* sessions created in one run of the session list alone
MaxMessages == 4        \* messages created in one run of the application
MaxStoreMessages == 2   \* messages created in one run of the store alone
MaxClock == 1           \* advances of the clock
MaxSends == 2           \* sendMessage invocations in one run
MaxViolations == 1      \* boundary violations recorded, in all and per session
MaxHalvings == 1        \* times a session's quality average is averaged again
MaxListedViolations == 7 \* violations listed on one message
MaxUrls == 2            \* object URLs created in one run
MaxHistory == 16        \* messages of the one session of a long conversation
MaxMarkedMessages == 3  \* of them, user messages the extractors pick something up in
MaxRecorded == 2        \* boundary violations recorded while the counter is followed
MaxPicked == 6          \* files picked in one selection event
MaxPickedUrls == 7      \* object URLs created in one run of the attachment limits

(***************************************************************************)
(* Inputs: what the user types, the starter buttons, what the model        *)
(* endpoint answers                                                        *)
(***************************************************************************)

\* user input typed into the textarea
UserTexts ==
  { "I feel sad and lost about my song",
    "my childhood family trauma" }

\* CONVERSATION_STARTERS shown while the session has no message
StarterTexts ==
  { "Tell me about a piece of music that had a strong psychological impact on you recently." }

\* replies of the model endpoint: clean; flagged CRITICAL and cleared by the
\* corrector; flagged CRITICAL and not cleared; flagged with WARNINGs only
ReplyClean == "This suggests a pattern. What draws you to it?"
ReplyFixable == "I think you feel calm"
ReplyUnfixable == "I remember that song"
ReplyWarn ==
  "Music is a big part of life and it can carry a lot of weight for a lot of listeners in a lot of places, all the time."
Replies == { ReplyClean, ReplyFixable, ReplyUnfixable, ReplyWarn }

\* what the user says in a long conversation: nothing the extractors pick
\* up; emotional words; more than two pattern words; a long account of a
\* relationship
TextPlain == "hello there"
TextEmotional == "I feel sad and lost about my song"
TextPatterns == "my childhood family trauma"
TextLong ==
  "Let me tell you at length about one relationship: we met at school, moved to the same town, shared a flat for years, cooked and argued about books, went hiking every weekend, and then slowly stopped talking to each other."
ConversationTexts == { TextPlain, TextEmotional, TextPatterns, TextLong }

SessionTypes == { "personality", "music" }

Null == [null |-> TRUE]   \* JavaScript null, where an object is expected
Undefined == -1           \* JavaScript undefined, where a number is expected

(***************************************************************************)
(* The texts that can occur in a run, and the text functions tabulated     *)
(* over them (evaluated once)                                              *)
(***************************************************************************)

KnownTexts ==
  UserTexts \cup StarterTexts \cup Replies \cup ConversationTexts
    \cup {correctAnalysisLanguage(r) : r \in Replies}
    \cup {createSafeAnalysisResponse(u, <<>>) : u \in UserTexts \cup StarterTexts}
    \cup {errorResponse, ""}

emotionalMarkersTable == [t \in KnownTexts |-> extractEmotionalMarkers(t)]
psychologicalPatternsTable == [t \in KnownTexts |-> extractPsychologicalPatterns(t)]
violationsTable == [t \in KnownTexts |-> validatePsychologyAnalysis(t, "")]
correctedTable == [t \in KnownTexts |-> correctAnalysisLanguage(t)]
safeResponseTable == [t \in KnownTexts |-> createSafeAnalysisResponse(t, <<>>)]

\* the tables, held in the state from the start and never changed
VARIABLE tabulated

Tabulated ==
  [ emotionalMarkers |-> emotionalMarkersTable,
    psychologicalPatterns |-> psychologicalPatternsTable,
    violations |-> violationsTable,
    corrected |-> correctedTable,
    safeResponse |-> safeResponseTable ]

emotionalMarkersOf(text) == tabulated.emotionalMarkers[text]
psychologicalPatternsOf(text) == tabulated.psychologicalPatterns[text]
\* validatePsychologyAnalysis does not read its second argument
violationsOf(response, userMessage) == tabulated.violations[response]
correctedOf(response) == tabulated.corrected[response]
\* createSafeAnalysisResponse does not read its second argument
safeResponseOf(userMessage, violations) == tabulated.safeResponse[userMessage]

(***************************************************************************)
(* Exact rational numbers <<numerator, denominator>> for the scores the    *)
(* code keeps as floating-point numbers                                    *)
(***************************************************************************)

RECURSIVE GCD(_, _)
GCD(a, b) == IF b = 0 THEN a ELSE GCD(b, a % b)

Rat(n, d) == LET g == GCD(IF n < 0 THEN -n ELSE n, d) IN <<n \div g, d \div g>>
RatInt(n) == <<n, 1>>
RatLeq(a, b) == a[1] * b[2] <= b[1] * a[2]

(***************************************************************************)
(* Store: records and pure helpers (store.ts, lines 1-626)                 *)
(***************************************************************************)

createDefaultConversationState ==
  [ psychological_safety_level |-> 5,
    readiness_for_depth |-> "surface",
    boundary_violations_count |-> 0,
    response_quality_average |-> RatInt(100),
    last_validation_score |-> 100 ]

analysisTypeNames ==
  [ t \in {"personality", "creative", "music", "label-insights"} |->
      CASE t = "personality" -> "Personality Profile"
        [] t = "creative" -> "Creative Assessment"
        [] t = "music" -> "Music Psychology"
        [] OTHER -> "Industry Insights" ]

\* calculateResponseQuality returning the score as it stands, unclamped
calculateResponseQualityUnclamped(message) ==
  LET s1 == IF Len(message.boundaryViolations) > 0
            THEN 100 - Len(message.boundaryViolations) * 15 ELSE 100
      s2 == IF Len(message.psychologicalPatterns) > 2 THEN s1 + 5 ELSE s1
      s3 == IF Len(message.emotionalMarkers) > 0 THEN s2 + 5 ELSE s2
  IN s3

calculateResponseQuality(message) ==
  LET s1 == IF Len(message.boundaryViolations) > 0
            THEN 100 - Len(message.boundaryViolations) * 15 ELSE 100
      s2 == IF Len(message.psychologicalPatterns) > 2 THEN s1 + 5 ELSE s1
      s3 == IF Len(message.emotionalMarkers) > 0 THEN s2 + 5 ELSE s2
  IN Max(0, Min(100, s3))

IsUser(m) == m.role = "user"
userMessagesOf(messages) == SelectSeq(messages, IsUser)

\* the classifier with its first threshold test turned round
assessDepthOfTurned(messages) ==
  LET messageCount == Len(messages)
      userMessages == userMessagesOf(messages)
      hasEmotionalContent ==
        \E i \in 1..Len(userMessages) : Len(userMessages[i].emotionalMarkers) > 0
      hasPsychologicalContent ==
        \E i \in 1..Len(userMessages) : Len(userMessages[i].psychologicalPatterns) > 2
      hasDeepExploration ==
        \E i \in 1..Len(userMessages) :
          /\ Len(userMessages[i].content) > 200
          /\ LET lc == toLowerCase(userMessages[i].content)
             IN \/ includes(lc, "childhood") \/ includes(lc, "trauma")
                \/ includes(lc, "family") \/ includes(lc, "relationship")
  IN IF messageCount > 4 THEN "surface"
     ELSE IF messageCount < 8 \/ (~hasEmotionalContent /\ ~hasPsychologicalContent) THEN "emerging"
     ELSE IF messageCount < 15 \/ ~hasDeepExploration THEN "deep"
     ELSE "integration"

\* the classifier asking for both conditions of its second test
assessDepthOfBoth(messages) ==
  LET messageCount == Len(messages)
      userMessages == userMessagesOf(messages)
      hasEmotionalContent ==
        \E i \in 1..Len(userMessages) : Len(userMessages[i].emotionalMarkers) > 0
      hasPsychologicalContent ==
        \E i \in 1..Len(userMessages) : Len(userMessages[i].psychologicalPatterns) > 2
      hasDeepExploration ==
        \E i \in 1..Len(userMessages) :
          /\ Len(userMessages[i].content) > 200
          /\ LET lc == toLowerCase(userMessages[i].content)
             IN \/ includes(lc, "childhood") \/ includes(lc, "trauma")
                \/ includes(lc, "family") \/ includes(lc, "relationship")
  IN IF messageCount < 4 THEN "surface"
     ELSE IF messageCount < 8 /\ (~hasEmotionalContent /\ ~hasPsychologicalContent) THEN "emerging"
     ELSE IF messageCount < 15 \/ ~hasDeepExploration THEN "deep"
     ELSE "integration"

\* the classifier of assessConversationDepth
assessDepthOf(messages) ==
  LET messageCount == Len(messages)
      userMessages == userMessagesOf(messages)
      hasEmotionalContent ==
        \E i \in 1..Len(userMessages) : Len(userMessages[i].emotionalMarkers) > 0
      hasPsychologicalContent ==
        \E i \in 1..Len(userMessages) : Len(userMessages[i].psychologicalPatterns) > 2
      hasDeepExploration ==
        \E i \in 1..Len(userMessages) :
          /\ Len(userMessages[i].content) > 200
          /\ LET lc == toLowerCase(userMessages[i].content)
             IN \/ includes(lc, "childhood") \/ includes(lc, "trauma")
                \/ includes(lc, "family") \/ includes(lc, "relationship")
  IN IF messageCount < 4 THEN "surface"
     ELSE IF messageCount < 8 \/ (~hasEmotionalContent /\ ~hasPsychologicalContent) THEN "emerging"
     ELSE IF messageCount < 15 \/ ~hasDeepExploration THEN "deep"
     ELSE "integration"

\* the classifier local to setCurrentSession
assessDepth(session) ==
  IF session = Null THEN "surface"
  ELSE LET messageCount == Len(session.messages)
           userMessages == userMessagesOf(session.messages)
           hasDeepContent ==
             \E i \in 1..Len(userMessages) :
               \/ Len(userMessages[i].psychologicalPatterns) > 2
               \/ Len(userMessages[i].emotionalMarkers) > 1
       IN IF messageCount < 4 THEN "surface"
          ELSE IF messageCount < 8 /\ ~hasDeepContent THEN "emerging"
          ELSE IF messageCount < 15 \/ ~hasDeepContent THEN "deep"
          ELSE "integration"

\* state.sessions.map(session => session.id === updated.id ? updated : session)
replaceById(list, updated) ==
  [i \in 1..Len(list) |-> IF list[i].id = updated.id THEN updated ELSE list[i]]

\* sessions.reduce((acc, session) => acc + session.messages.length, 0)
RECURSIVE totalMessagesOf(_)
totalMessagesOf(list) ==
  IF list = <<>> THEN 0 ELSE Len(Head(list).messages) + totalMessagesOf(Tail(list))

\* 100 - violationRate * 10 clamped to [0, 100], violationRate in percent
healthOf(totalViolations, list) ==
  LET totalMessages == totalMessagesOf(list)
  IN IF totalMessages = 0 THEN RatInt(100)
     ELSE Rat(Max(0, Min(100 * totalMessages, 100 * totalMessages - 1000 * totalViolations)),
              totalMessages)

(***************************************************************************)
(* Persistence: JSON.stringify / JSON.parse of the session collection      *)
(***************************************************************************)

\* Date.prototype.toJSON: the ISO-8601 text of the millisecond count
toISOString(t) == <<"iso", t>>
\* new Date(isoText)
parseDate(d) == d[2]

\* an attachment as the Chat component holds it: the File, its name and the
\* object URL created for it (n: the number of the URL)
Attachment(n) == [ file |-> [File |-> n], name |-> n, url |-> [blob |-> n] ]

\* no attachment of any kind (a message built without the properties)
NoFiles == [ audioFiles |-> <<>>, visualFiles |-> <<>>, documentFiles |-> <<>> ]

\* audioFiles.map(audio => ({name, duration, analysisResult})): file and url
\* are left out
serializeAudioFile(audio) == [ name |-> audio.name ]

\* JSON.stringify of an attachment object that is spread with the message:
\* a File has no enumerable property of its own and becomes {}, the url is
\* a string and stays
stringifyFile(a) == [ file |-> <<>>, name |-> a.name, url |-> a.url ]

\* JSON.stringify drops a property whose value is undefined
serializeMessage(msg) ==
  LET base == [ id |-> msg.id, role |-> msg.role, content |-> msg.content,
                timestamp |-> toISOString(msg.timestamp),
                emotionalMarkers |-> msg.emotionalMarkers,
                psychologicalPatterns |-> msg.psychologicalPatterns,
                boundaryViolations |-> msg.boundaryViolations,
                audioFiles |-> [i \in 1..Len(msg.audioFiles) |->
                                  serializeAudioFile(msg.audioFiles[i])],
                visualFiles |-> [i \in 1..Len(msg.visualFiles) |->
                                   stringifyFile(msg.visualFiles[i])],
                documentFiles |-> [i \in 1..Len(msg.documentFiles) |->
                                     stringifyFile(msg.documentFiles[i])] ]
  IN IF msg.validationScore = Undefined THEN base
     ELSE base @@ [validationScore |-> msg.validationScore]

serializeSession(session) ==
  [ id |-> session.id, title |-> session.title, type |-> session.type,
    createdAt |-> toISOString(session.createdAt),
    updatedAt |-> toISOString(session.updatedAt),
    messages |-> [i \in 1..Len(session.messages) |-> serializeMessage(session.messages[i])],
    conversationState |-> session.conversationState ]

parseMessage(msg) ==
  [ id |-> msg.id, role |-> msg.role, content |-> msg.content,
    timestamp |-> parseDate(msg.timestamp),
    emotionalMarkers |-> msg.emotionalMarkers,
    psychologicalPatterns |-> msg.psychologicalPatterns,
    boundaryViolations |-> msg.boundaryViolations,
    audioFiles |-> msg.audioFiles,
    visualFiles |-> msg.visualFiles,
    documentFiles |-> msg.documentFiles,
    validationScore |-> IF "validationScore" \in DOMAIN msg THEN msg.validationScore ELSE Undefined ]

\* parseSession reading updatedAt from the createdAt property
parseSessionCreatedOnly(session) ==
  [ id |-> session.id, title |-> session.title, type |-> session.type,
    createdAt |-> parseDate(session.createdAt),
    updatedAt |-> parseDate(session.createdAt),
    messages |-> [i \in 1..Len(session.messages) |-> parseMessage(session.messages[i])],
    conversationState |-> session.conversationState ]

parseSession(session) ==
  [ id |-> session.id, title |-> session.title, type |-> session.type,
    createdAt |-> parseDate(session.createdAt),
    updatedAt |-> parseDate(session.updatedAt),
    messages |-> [i \in 1..Len(session.messages) |-> parseMessage(session.messages[i])],
    conversationState |-> session.conversationState ]

(***************************************************************************)
(* Store operations, as functions of the store state st.  st holds the     *)
(* fields of AppState the model follows, the localStorage entry (stored)   *)
(* and the id generators (nextSid, nextMid).  full: localStorage.setItem   *)
(* throws (quota exceeded); now: the reading of new Date().                *)
(***************************************************************************)

saveSessionsToStorage(st, full) ==
  IF full THEN st
  ELSE [st EXCEPT !.stored =
          [json |-> [i \in 1..Len(st.sessions) |-> serializeSession(st.sessions[i])]]]

RECURSIVE sumViolations(_)
sumViolations(list) ==
  IF list = <<>> THEN 0
  ELSE Head(list).conversationState.boundary_violations_count + sumViolations(Tail(list))

\* the stored text parses (JSON.parse does not throw) to an array whose
\* entries have a messages array (session.messages.map does not throw)
parses(stored) ==
  /\ "json" \in DOMAIN stored
  /\ \A i \in 1..Len(stored.json) : "messages" \in DOMAIN stored.json[i]

\* loadSessions emptying the collection when the stored text does not parse
loadSessionsClearing(st) ==
  IF st.stored = Null THEN st
  ELSE IF ~parses(st.stored) THEN [st EXCEPT !.sessions = <<>>]
  ELSE LET loaded == [i \in 1..Len(st.stored.json) |-> parseSession(st.stored.json[i])]
           totalViolations == sumViolations(loaded)
       IN [st EXCEPT !.sessions = loaded,
                     !.totalBoundaryViolations = totalViolations,
                     !.systemHealthScore = RatInt(Max(0, 100 - totalViolations * 2))]

loadSessions(st) ==
  IF st.stored = Null THEN st
  ELSE IF ~parses(st.stored) THEN st
  ELSE LET loaded == [i \in 1..Len(st.stored.json) |-> parseSession(st.stored.json[i])]
           totalViolations == sumViolations(loaded)
       IN [st EXCEPT !.sessions = loaded,
                     !.totalBoundaryViolations = totalViolations,
                     !.systemHealthScore = RatInt(Max(0, 100 - totalViolations * 2))]

createNewSession(st, type, now, full) ==
  LET newSession == [ id |-> st.nextSid,
                      title |-> analysisTypeNames[type],
                      messages |-> <<>>,
                      createdAt |-> now,
                      updatedAt |-> now,
                      type |-> type,
                      conversationState |-> createDefaultConversationState ]
      st1 == [st EXCEPT !.sessions = <<newSession>> \o st.sessions,
                        !.currentSession = newSession,
                        !.inputText = "",
                        !.selectedImages = 0,
                        !.currentConversationDepth = "surface",
                        !.suggestedFollowUps = <<>>,
                        !.nextSid = st.nextSid + 1]
  IN saveSessionsToStorage(st1, full)

setCurrentSession(st, session) ==
  [st EXCEPT !.currentSession = session,
             !.currentConversationDepth = assessDepth(session)]

assessConversationDepth(st) ==
  IF st.currentSession = Null THEN st
  ELSE [st EXCEPT !.currentConversationDepth = assessDepthOf(st.currentSession.messages)]

\* what assessConversationDepth returns
assessConversationDepthReturn(st) ==
  IF st.currentSession = Null THEN "surface"
  ELSE assessDepthOf(st.currentSession.messages)

generateConversationSuggestions(st) ==
  IF st.currentSession = Null THEN st
  ELSE LET userMessages == userMessagesOf(st.currentSession.messages)
           depth == st.currentConversationDepth
           suggestions ==
             IF userMessages = <<>> THEN <<>>
             ELSE LET lastUserMessage == userMessages[Len(userMessages)]
                      pats == lastUserMessage.psychologicalPatterns
                      emotions == lastUserMessage.emotionalMarkers
                  IN IF depth = "surface"
                     THEN << "What draws you to explore that particular aspect of yourself?",
                             "How does that creative process feel psychologically for you?" >>
                     ELSE IF depth = "emerging"
                     THEN (IF \E i \in 1..Len(pats) : pats[i] = "childhood"
                           THEN <<"What early experiences shaped that pattern for you?">> ELSE <<>>)
                          \o (IF Len(emotions) > 0
                              THEN <<"When do you first remember feeling that way?">> ELSE <<>>)
                     ELSE IF depth = "deep"
                     THEN << "How has working through this changed your relationship with yourself?",
                             "What would it look like to integrate this understanding into your daily life?" >>
                     ELSE << "What wisdom would you share with someone experiencing something similar?",
                             "How do you want to continue growing in this area?" >>
       IN [st EXCEPT !.suggestedFollowUps = suggestions]

updateSystemHealth(st) ==
  [st EXCEPT !.systemHealthScore = healthOf(st.totalBoundaryViolations, st.sessions)]

\* addMessage(message); message: role, content and the attachment lists
addMessageWith(st, message, now, full) ==
  LET role == message.role
      content == message.content
      newMessage == [ id |-> st.nextMid,
                      role |-> role,
                      content |-> content,
                      audioFiles |-> message.audioFiles,
                      visualFiles |-> message.visualFiles,
                      documentFiles |-> message.documentFiles,
                      timestamp |-> now,
                      emotionalMarkers |-> emotionalMarkersOf(content),
                      psychologicalPatterns |-> psychologicalPatternsOf(content),
                      validationScore |-> IF role = "user" THEN Undefined ELSE 100,
                      boundaryViolations |-> <<>> ]
      cur == st.currentSession
      st1 == IF cur = Null THEN st
             ELSE LET isFirstUserMessage == Len(cur.messages) = 0 /\ role = "user"
                      updatedSession ==
                        [cur EXCEPT !.messages = Append(cur.messages, newMessage),
                                    !.updatedAt = now,
                                    !.title = IF isFirstUserMessage
                                              THEN substring0(content, 60)
                                                   \o (IF Len(content) > 60 THEN "..." ELSE "")
                                              ELSE cur.title]
                  IN [st EXCEPT !.currentSession = updatedSession,
                                !.sessions = replaceById(st.sessions, updatedSession),
                                !.nextMid = st.nextMid + 1]
      st2 == IF role = "user"
             THEN generateConversationSuggestions(assessConversationDepth(st1))
             ELSE st1
  IN saveSessionsToStorage(st2, full)

\* addMessage({role, content})
addMessage(st, role, content, now, full) ==
  addMessageWith(st, [role |-> role, content |-> content] @@ NoFiles, now, full)

updateLastMessage(st, content, validationScore, violations, now, full) ==
  LET cur == st.currentSession
      st1 ==
        IF cur = Null THEN st
        ELSE IF Len(cur.messages) = 0 THEN st
        ELSE LET n == Len(cur.messages)
                 lastMessage == cur.messages[n]
             IN IF lastMessage.role = "assistant"
                THEN LET emotionalMarkers == emotionalMarkersOf(content)
                         psychologicalPatterns == psychologicalPatternsOf(content)
                         newLast == [lastMessage EXCEPT
                                       !.content = content,
                                       !.psychologicalPatterns = psychologicalPatterns,
                                       !.emotionalMarkers = emotionalMarkers,
                                       !.validationScore = validationScore,
                                       !.boundaryViolations = violations]
                         qualityScore == calculateResponseQuality(newLast)
                         cs == cur.conversationState
                         avg == cs.response_quality_average
                         updatedConversationState ==
                           [cs EXCEPT
                              !.last_validation_score = validationScore,
                              !.boundary_violations_count = cs.boundary_violations_count + Len(violations),
                              !.response_quality_average = Rat(avg[1] + qualityScore * avg[2], 2 * avg[2])]
                         updatedSession ==
                           [cur EXCEPT !.messages = [cur.messages EXCEPT ![n] = newLast],
                                       !.conversationState = updatedConversationState,
                                       !.updatedAt = now]
                     IN [st EXCEPT !.currentSession = updatedSession,
                                   !.sessions = replaceById(st.sessions, updatedSession),
                                   !.totalBoundaryViolations = st.totalBoundaryViolations + Len(violations)]
                ELSE st
  IN saveSessionsToStorage(updateSystemHealth(st1), full)

\* deleteSession with the active session left as it was
deleteSessionKeepsActive(st, sessionId, full) ==
  LET Keep(s) == s.id # sessionId
      filteredSessions == SelectSeq(st.sessions, Keep)
      st1 == [st EXCEPT !.sessions = filteredSessions]
  IN saveSessionsToStorage(st1, full)

deleteSession(st, sessionId, full) ==
  LET Keep(s) == s.id # sessionId
      filteredSessions == SelectSeq(st.sessions, Keep)
      cur == IF st.currentSession # Null /\ st.currentSession.id = sessionId
             THEN (IF Len(filteredSessions) > 0 THEN filteredSessions[1] ELSE Null)
             ELSE st.currentSession
      st1 == [st EXCEPT !.sessions = filteredSessions, !.currentSession = cur]
  IN saveSessionsToStorage(st1, full)

\* updates: a record holding some of the fields of ConversationState
updateConversationState(st, updates) ==
  IF st.currentSession = Null THEN st
  ELSE LET cs == st.currentSession.conversationState
           updatedSession ==
             [st.currentSession EXCEPT
                !.conversationState =
                  [f \in DOMAIN cs |-> IF f \in DOMAIN updates THEN updates[f] ELSE cs[f]]]
       IN [st EXCEPT !.currentSession = updatedSession,
                     !.sessions = replaceById(st.sessions, updatedSession)]

recordBoundaryViolation(st) ==
  LET st1 == [st EXCEPT !.totalBoundaryViolations = st.totalBoundaryViolations + 1]
      count == IF st1.currentSession = Null THEN 0
               ELSE st1.currentSession.conversationState.boundary_violations_count
      st2 == updateConversationState(st1, [boundary_violations_count |-> count + 1])
  IN updateSystemHealth(st2)

(***************************************************************************)
(* State                                                                   *)
(***************************************************************************)

VARIABLES
  currentSession,            \* AppState.currentSession: a session or Null
  sessions,                  \* AppState.sessions, most recent first
  isGenerating,              \* AppState.isGenerating
  inputText,                 \* AppState.inputText
  selectedImages,            \* AppState.selectedImages (how many files)
  currentConversationDepth,  \* AppState.currentConversationDepth
  suggestedFollowUps,        \* AppState.suggestedFollowUps
  systemHealthScore,         \* AppState.systemHealthScore
  totalBoundaryViolations,   \* AppState.totalBoundaryViolations
  stored,                    \* localStorage['psyche-siren-sessions'], or Null
  storageFull,               \* localStorage.setItem throws (quota exceeded)
  nextSid,                   \* next fresh session id
  nextMid,                   \* next fresh message id
  now,                       \* the clock read by new Date()
  development,               \* process.env.NODE_ENV === 'development'
  lastResponseQuality,       \* Chat state lastResponseQuality: [score] or Null
  sends,                     \* the sendMessage invocations of the run
  context,                   \* Chat state persistent*Files, and the object URLs
  applied                    \* the last application of a text function, or Null

vars ==
  << currentSession, sessions, isGenerating, inputText, selectedImages,
     currentConversationDepth, suggestedFollowUps, systemHealthScore,
     totalBoundaryViolations, stored, storageFull, nextSid, nextMid, now,
     development, tabulated, context, applied, lastResponseQuality, sends >>

\* the store state the operations work on
St ==
  [ currentSession |-> currentSession, sessions |-> sessions,
    isGenerating |-> isGenerating, inputText |-> inputText,
    selectedImages |-> selectedImages,
    currentConversationDepth |-> currentConversationDepth,
    suggestedFollowUps |-> suggestedFollowUps,
    systemHealthScore |-> systemHealthScore,
    totalBoundaryViolations |-> totalBoundaryViolations,
    stored |-> stored, nextSid |-> nextSid, nextMid |-> nextMid ]

Commit(st) ==
  /\ currentSession' = st.currentSession
  /\ sessions' = st.sessions
  /\ isGenerating' = st.isGenerating
  /\ inputText' = st.inputText
  /\ selectedImages' = st.selectedImages
  /\ currentConversationDepth' = st.currentConversationDepth
  /\ suggestedFollowUps' = st.suggestedFollowUps
  /\ systemHealthScore' = st.systemHealthScore
  /\ totalBoundaryViolations' = st.totalBoundaryViolations
  /\ stored' = st.stored
  /\ nextSid' = st.nextSid
  /\ nextMid' = st.nextMid

\* the Chat component as it mounts: no attachment in any context, no object
\* URL created.  revoked[u]: how many times URL.revokeObjectURL(u) was called.
\* selecting: the handleAudioFileSelect invocation whose loop is running (the
\* persistentAudioFiles.length of its closure, the files it has yet to
\* visit), or Null.
EmptyContext ==
  [ audio |-> <<>>, visual |-> <<>>, document |-> <<>>,
    pending |-> {}, revoked |-> <<>>, mounted |-> TRUE, seenSession |-> Null,
    selecting |-> Null ]

\* a sendMessage invocation that has not been made yet
IdleSend ==
  [ pc |-> "idle", content |-> "", closure |-> Null, quality |-> Null,
    files |-> NoFiles, placeholder |-> Null, reply |-> Null, requests |-> 0,
    request |-> <<>> ]

Init ==
  /\ currentSession = Null
  /\ sessions = <<>>
  /\ isGenerating = FALSE
  /\ inputText = ""
  /\ selectedImages = 0
  /\ currentConversationDepth = "surface"
  /\ suggestedFollowUps = <<>>
  /\ systemHealthScore = RatInt(100)
  /\ totalBoundaryViolations = 0
  /\ stored = Null
  /\ storageFull = FALSE
  /\ nextSid = 1
  /\ nextMid = 1
  /\ now = 0
  /\ development \in BOOLEAN
  /\ tabulated = Tabulated
  /\ lastResponseQuality = Null
  /\ sends = [p \in 1..MaxSends |-> IdleSend]
  /\ context = EmptyContext
  /\ applied = Null

(***************************************************************************)
(* Environment                                                             *)
(***************************************************************************)

\* time passes
Tick ==
  /\ now < MaxClock
  /\ now' = now + 1
  /\ UNCHANGED << currentSession, sessions, isGenerating, inputText, selectedImages,
                  currentConversationDepth, suggestedFollowUps, systemHealthScore,
                  totalBoundaryViolations, stored, storageFull, nextSid, nextMid,
                  development, tabulated, context, applied, lastResponseQuality, sends >>

\* the origin's storage quota runs out, or room is made again
StorageQuota ==
  /\ storageFull' = ~storageFull
  /\ UNCHANGED << currentSession, sessions, isGenerating, inputText, selectedImages,
                  currentConversationDepth, suggestedFollowUps, systemHealthScore,
                  totalBoundaryViolations, stored, nextSid, nextMid, now,
                  development, tabulated, context, applied, lastResponseQuality, sends >>

\* the stored entry is damaged from outside the store (another tab, the
\* developer tools): cut short so that it does not parse, or given an entry
\* that is not a session
MalformedEntries(entry) ==
  { [text |-> "[{"] }
    \cup (IF "json" \in DOMAIN entry /\ parses(entry)
          THEN { [json |-> Append(entry.json, [id |-> 0])] } ELSE {})

StorageDamaged ==
  /\ stored # Null
  /\ \E damaged \in MalformedEntries(stored) : stored' = damaged
  /\ UNCHANGED << currentSession, sessions, isGenerating, inputText, selectedImages,
                  currentConversationDepth, suggestedFollowUps, systemHealthScore,
                  totalBoundaryViolations, storageFull, nextSid, nextMid, now,
                  development, tabulated, context, applied, lastResponseQuality, sends >>

ChatUnchanged ==
  UNCHANGED << storageFull, now, development, tabulated, context, applied,
               lastResponseQuality, sends >>

(***************************************************************************)
(* Sidebar (sidebar.tsx): the store operations the user reaches directly   *)
(***************************************************************************)

\* handleNewSession(type) -> createNewSession(type)
CreateNewSession(type) ==
  /\ Commit(createNewSession(St, type, now, storageFull))
  /\ ChatUnchanged

\* onClick of a session row -> setCurrentSession(session)
SetCurrentSession(i) ==
  /\ i \in 1..Len(sessions)
  /\ Commit(setCurrentSession(St, sessions[i]))
  /\ ChatUnchanged

\* handleDeleteSession(e, session.id) -> deleteSession(session.id)
DeleteSession(i) ==
  /\ i \in 1..Len(sessions)
  /\ Commit(deleteSession(St, sessions[i].id, storageFull))
  /\ ChatUnchanged

(***************************************************************************)
(* Chat (chat.tsx): input, and sendMessage with its suspension points      *)
(***************************************************************************)

\* onChange of the textarea -> setInputText; the textarea is disabled while
\* isGenerating
TypeInput(text) ==
  /\ currentSession # Null
  /\ ~isGenerating
  /\ inputText # text
  /\ inputText' = text
  /\ UNCHANGED << currentSession, sessions, isGenerating, selectedImages,
                  currentConversationDepth, suggestedFollowUps, systemHealthScore,
                  totalBoundaryViolations, stored, storageFull, nextSid, nextMid, now,
                  development, tabulated, context, applied, lastResponseQuality, sends >>

\* handleFileSelect with one valid image -> addSelectedImage
MaxImages == 1
SelectImage ==
  /\ currentSession # Null
  /\ ~isGenerating
  /\ selectedImages < MaxImages
  /\ selectedImages' = selectedImages + 1
  /\ UNCHANGED << currentSession, sessions, isGenerating, inputText,
                  currentConversationDepth, suggestedFollowUps, systemHealthScore,
                  totalBoundaryViolations, stored, storageFull, nextSid, nextMid, now,
                  development, tabulated, context, applied, lastResponseQuality, sends >>

\* handleFileSelect with n valid images picked in one event: forEach tests
\* selectedImages.length of the render the handler closed over, the same
\* number for every file, and calls addSelectedImage for each file that passes
HandleFileSelect(n) ==
  /\ currentSession # Null
  /\ ~isGenerating
  /\ selectedImages' = IF selectedImages < 5 THEN selectedImages + n ELSE selectedImages
  /\ UNCHANGED << currentSession, sessions, isGenerating, inputText,
                  currentConversationDepth, suggestedFollowUps, systemHealthScore,
                  totalBoundaryViolations, stored, storageFull, nextSid, nextMid, now,
                  development, tabulated, context, applied, lastResponseQuality, sends >>

\* String.prototype.trim (spaces)
RECURSIVE trim(_)
trim(str) ==
  IF Len(str) = 0 THEN str
  ELSE IF Head(str) = " " THEN trim(Tail(str))
  ELSE IF SubSeq(str, Len(str), Len(str)) = " " THEN trim(SubSeq(str, 1, Len(str) - 1))
  ELSE str

\* validateAnalysisResponse(response, userMessage): the store after it, its
\* return value, and lastResponseQuality after it (quality: its value before)
validateAnalysisResponse(st, response, userMessage, quality, dev, t, full) ==
  LET violations == violationsOf(response, userMessage)
      score == IF Len(violations) = 0 THEN 100 ELSE Max(0, 100 - Len(violations) * 20)
      quality1 == IF dev THEN [score |-> score] ELSE quality
      criticalViolations == criticalOf(violations)
  IN IF Len(criticalViolations) > 0
     THEN LET correctedResponse == correctedOf(response)
              stillViolating == criticalOf(violationsOf(correctedResponse, userMessage))
          IN IF Len(stillViolating) > 0
             THEN [ st |-> updateLastMessage(st, safeResponseOf(userMessage, violations),
                                             100, <<>>, t, full),
                    result |-> FALSE, quality |-> quality1 ]
             ELSE [ st |-> updateLastMessage(st, correctedResponse, 100, <<>>, t, full),
                    result |-> TRUE, quality |-> quality1 ]
     ELSE IF Len(violations) > 0
     THEN [ st |-> updateLastMessage(st, correctedOf(response), 100, <<>>, t, full),
            result |-> TRUE, quality |-> quality1 ]
     ELSE [ st |-> st, result |-> TRUE, quality |-> quality1 ]

\* PSYCHE_SIREN_PROMPTS[...]: the key chosen for the session type
systemPromptOf(type) ==
  CASE type = "personality" -> "PERSONALITY_PROFILE"
    [] type = "creative" -> "CREATIVE_ASSESSMENT"
    [] type = "music" -> "MUSIC_PSYCHOLOGY"
    [] type = "visual" -> "VISUAL_ANALYSIS"
    [] OTHER -> "LABEL_INSIGHTS"

\* audioContext + visualContext + documentContext: the text written for the
\* attachments, by their names; the empty text when there is no attachment
combinedContext(files) ==
  [i \in 1..Len(files.audioFiles) |-> <<"Audio", i, files.audioFiles[i].name>>]
    \o [i \in 1..Len(files.visualFiles) |-> <<"Visual", i, files.visualFiles[i].name>>]
    \o [i \in 1..Len(files.documentFiles) |-> <<"Document", i, files.documentFiles[i].name>>]

\* createAnalysisPrompt(systemPrompt, userMessage, sessionType): the template
\* with the system prompt and, after "USER DESCRIPTION: ", the user message
createAnalysisPrompt(systemPrompt, userMessage, sessionType) ==
  [ template |-> "USER DESCRIPTION", systemPrompt |-> systemPrompt,
    text |-> userMessage.text, context |-> userMessage.context ]

\* `Continue psychological analysis [considering the uploaded files]. ...
\* USER: ${contentToSend}${combinedContext}`
contextualPrompt(contentToSend, uploaded) ==
  [ template |-> IF uploaded # <<>> THEN "Continue considering the uploaded files"
                 ELSE "Continue",
    text |-> contentToSend, context |-> uploaded ]

\* list.slice(-n)
sliceLast(list, n) == SubSeq(list, Max(1, Len(list) - n + 1), Len(list))

\* the messages array of the request body, built from the currentSession of
\* the render sendMessage closed over
requestMessages(closure, contentToSend, files) ==
  IF Len(closure.messages) = 1
  THEN << [ role |-> "user",
            content |-> createAnalysisPrompt(systemPromptOf(closure.type),
                                             [text |-> contentToSend,
                                              context |-> combinedContext(files)],
                                             closure.type) ] >>
  ELSE LET recentMessages == sliceLast(closure.messages, 6)
           earlier == SubSeq(recentMessages, 1, Len(recentMessages) - 1)
       IN [i \in 1..Len(earlier) |->
             [role |-> earlier[i].role, content |-> earlier[i].content]]
          \o << [ role |-> "user",
                  content |-> contextualPrompt(contentToSend, combinedContext(files)) ] >>

\* sendMessage from `addMessage({role: "user", ...})` to the fetch call: one
\* synchronous stretch.  Gives the store after it and the placeholder it
\* appended (the ids of its session and message; Null when none was appended).
sendBody(st, contentToSend, files, t, full) ==
  LET st1 == addMessageWith(st, [role |-> "user", content |-> contentToSend] @@ files, t, full)
      st2 == [st1 EXCEPT !.isGenerating = TRUE]
      st3 == addMessage(st2, "assistant", "", t, full)
  IN [ st |-> st3,
       placeholder |-> IF st2.currentSession = Null THEN Null
                       ELSE [session |-> st2.currentSession.id, message |-> st2.nextMid] ]

\* sendMessage after the reply: what is written for a reply the endpoint
\* returned (response.content), or for a failure (response = Null: non-OK
\* status, thrown error, or no choices[0].message.content)
sendFinish(st, response, contentToSend, capturedQuality, quality, dev, t, full) ==
  IF response = Null
  THEN [ st |-> [updateLastMessage(st, errorResponse, 100, <<>>, t, full)
                   EXCEPT !.isGenerating = FALSE],
         quality |-> quality ]
  ELSE LET v == validateAnalysisResponse(st, response.content, contentToSend, quality, dev, t, full)
           st1 == IF v.result /\ (capturedQuality = Null \/ capturedQuality.score >= 90)
                  THEN updateLastMessage(v.st, response.content, 100, <<>>, t, full)
                  ELSE v.st
       IN [ st |-> [st1 EXCEPT !.isGenerating = FALSE], quality |-> v.quality ]

\* what the fetch call can come back with
ReplyOutcomes == {[content |-> r] : r \in Replies} \cup {Null}

\* the first sendMessage invocation not made yet
NextSend(p) == sends[p].pc = "idle" /\ \A q \in 1..(p - 1) : sends[q].pc # "idle"

\* sendMessage(messageContent) up to its first real suspension.  starter: the
\* text of the starter button clicked, or "" for the send button / Enter key.
\* The send button and the textarea are disabled while isGenerating; the
\* starter buttons are shown while the session has no message.
SendStart(p, starter) ==
  LET contentToSend == IF starter # "" THEN starter ELSE trim(inputText)
      images == selectedImages
      \* contextAudioFiles, contextVisualFiles, contextDocumentFiles
      contextFiles ==
        [ audioFiles |-> [i \in 1..Len(context.audio) |-> Attachment(context.audio[i])],
          visualFiles |-> [i \in 1..Len(context.visual) |-> Attachment(context.visual[i])],
          documentFiles |-> [i \in 1..Len(context.document) |-> Attachment(context.document[i])] ]
      st0 == [St EXCEPT !.inputText = "", !.selectedImages = 0]
      launched == [ sends[p] EXCEPT !.content = contentToSend,
                                    !.closure = currentSession,
                                    !.quality = lastResponseQuality,
                                    !.files = contextFiles ]
  IN /\ NextSend(p)
     /\ nextMid + 1 <= MaxMessages
     /\ currentSession # Null
     /\ IF starter # "" THEN Len(currentSession.messages) = 0 ELSE ~isGenerating
     /\ contentToSend # "" \/ images > 0
          \/ Len(context.audio) + Len(context.visual) + Len(context.document) > 0
     /\ lastResponseQuality' = Null
     /\ IF images > 0
        THEN \* await Promise.all(images.map(fileToBase64)) suspends
             /\ Commit(st0)
             /\ sends' = [sends EXCEPT ![p] = [launched EXCEPT !.pc = "encoding"]]
        ELSE LET b == sendBody(st0, contentToSend, launched.files, now, storageFull)
             IN /\ Commit(b.st)
                /\ sends' = [sends EXCEPT ![p] =
                               [launched EXCEPT !.pc = "waiting",
                                                !.placeholder = b.placeholder,
                                                !.requests = 1,
                                                !.request =
                                                  requestMessages(currentSession,
                                                                  contentToSend,
                                                                  contextFiles)]]
     /\ UNCHANGED << storageFull, now, development, tabulated, context, applied >>

\* the images are encoded: sendMessage goes on to the fetch call
SendEncoded(p) ==
  /\ sends[p].pc = "encoding"
  /\ nextMid + 1 <= MaxMessages
  /\ LET b == sendBody(St, sends[p].content, sends[p].files, now, storageFull)
     IN /\ Commit(b.st)
        /\ sends' = [sends EXCEPT ![p].pc = "waiting",
                                  ![p].placeholder = b.placeholder,
                                  ![p].requests = sends[p].requests + 1,
                                  ![p].request =
                                    requestMessages(sends[p].closure, sends[p].content,
                                                    sends[p].files)]
  /\ UNCHANGED << storageFull, now, development, tabulated, context, applied, lastResponseQuality >>

\* fileToBase64 rejects (FileReader error): the await outside the try block
\* throws and sendMessage ends there
SendEncodeFail(p) ==
  /\ sends[p].pc = "encoding"
  /\ sends' = [sends EXCEPT ![p].pc = "rejected", ![p].closure = Null]
  /\ UNCHANGED << currentSession, sessions, isGenerating, inputText, selectedImages,
                  currentConversationDepth, suggestedFollowUps, systemHealthScore,
                  totalBoundaryViolations, stored, storageFull, nextSid, nextMid, now,
                  development, tabulated, context, applied, lastResponseQuality >>

\* the endpoint answers (response.content in Replies) or the call fails (Null)
SendReply(p, response) ==
  /\ sends[p].pc = "waiting"
  /\ LET f == sendFinish(St, response, sends[p].content, sends[p].quality,
                         lastResponseQuality, development, now, storageFull)
     IN /\ Commit(f.st)
        /\ lastResponseQuality' = f.quality
  /\ sends' = [sends EXCEPT ![p].pc = "done", ![p].closure = Null, ![p].reply = response]
  /\ UNCHANGED << storageFull, now, development, tabulated, context, applied >>

(***************************************************************************)
(* Chat (chat.tsx): the attachment contexts and their object URLs          *)
(***************************************************************************)

ContextKinds == { "audio", "visual", "document" }

\* persistent*Files.length < 5 (audio, visual), < 10 (documents)
contextLimit ==
  [ kind \in ContextKinds |-> IF kind = "document" THEN 10 ELSE 5 ]

\* URL.revokeObjectURL called for every URL of the list urls
revokeEach(revoked, urls) ==
  [ u \in 1..Len(revoked) |->
      revoked[u] + Cardinality({i \in 1..Len(urls) : urls[i] = u}) ]

\* the cleanup of the effect over [persistentAudioFiles, persistentVisualFiles,
\* persistentDocumentFiles], run when one of the arrays is replaced and at
\* unmount: it revokes every URL of the arrays it closed over
cleanupUrls(ctx, revoked) ==
  revokeEach(revoked, ctx.audio \o ctx.visual \o ctx.document)

\* prev.filter((_, i) => i !== index)
withoutIndex(list, index) ==
  SubSeq(list, 1, index - 1) \o SubSeq(list, index + 1, Len(list))

\* currentSession?.id
currentSessionId == IF currentSession = Null THEN Null ELSE [id |-> currentSession.id]

\* the effect over [currentSession?.id] has run for the session now active
EffectsRun == context.seenSession = currentSessionId

ContextUnchanged ==
  UNCHANGED << currentSession, sessions, isGenerating, inputText, selectedImages,
               currentConversationDepth, suggestedFollowUps, systemHealthScore,
               totalBoundaryViolations, stored, storageFull, nextSid, nextMid, now,
               development, tabulated, applied, lastResponseQuality, sends >>

\* handle*FileSelect with one valid file, up to its first await: the object
\* URL is created
SelectFile(kind) ==
  /\ context.mounted
  /\ EffectsRun
  /\ ~isGenerating
  /\ Len(context[kind]) < contextLimit[kind]
  /\ Len(context.revoked) < MaxUrls
  /\ context' = [context EXCEPT
                   !.revoked = Append(@, 0),
                   !.pending = @ \cup {[kind |-> kind, url |-> Len(context.revoked) + 1]}]
  /\ ContextUnchanged

\* handle*FileSelect after the analysis: setPersistent*Files(prev => [...prev,
\* file]); the array is replaced, so the cleanup of the previous effect runs.
\* After unmount the state update does nothing.
FileAnalysed(kind, url) ==
  /\ [kind |-> kind, url |-> url] \in context.pending
  /\ EffectsRun
  /\ context' =
       IF context.mounted
       THEN [context EXCEPT ![kind] = Append(@, url),
                            !.pending = @ \ {[kind |-> kind, url |-> url]},
                            !.revoked = cleanupUrls(context, @)]
       ELSE [context EXCEPT !.pending = @ \ {[kind |-> kind, url |-> url]}]
  /\ ContextUnchanged

\* removePersistent*File(index)
RemoveFile(kind, index) ==
  /\ context.mounted
  /\ EffectsRun
  /\ index \in 1..Len(context[kind])
  /\ context' = [context EXCEPT
                   ![kind] = withoutIndex(@, index),
                   !.revoked = cleanupUrls(context, revokeEach(@, <<context[kind][index]>>))]
  /\ ContextUnchanged

\* clearAll*Context
ClearAllContext(kind) ==
  /\ context.mounted
  /\ EffectsRun
  /\ Len(context[kind]) > 0
  /\ context' = [context EXCEPT
                   ![kind] = <<>>,
                   !.revoked = cleanupUrls(context, revokeEach(@, context[kind]))]
  /\ ContextUnchanged

\* the effect over [currentSession?.id]: the audio context is cleared unless
\* the session is a music session, the visual context unless it is a visual
\* session
SessionChangedEffect ==
  LET type == IF currentSession = Null THEN "" ELSE currentSession.type
      clearAudio == type # "music" /\ Len(context.audio) > 0
      clearVisual == type # "visual" /\ Len(context.visual) > 0
      r1 == IF clearAudio THEN revokeEach(context.revoked, context.audio) ELSE context.revoked
      r2 == IF clearVisual THEN revokeEach(r1, context.visual) ELSE r1
  IN /\ context.mounted
     /\ ~EffectsRun
     /\ context' = [context EXCEPT
                      !.audio = IF clearAudio THEN <<>> ELSE @,
                      !.visual = IF clearVisual THEN <<>> ELSE @,
                      !.revoked = IF clearAudio \/ clearVisual
                                  THEN cleanupUrls(context, r2) ELSE r2,
                      !.seenSession = currentSessionId]
     /\ ContextUnchanged

\* handleAudioFileSelect is called with n valid audio files picked in one
\* event: its loop starts, over the persistentAudioFiles of the render the
\* handler closed over.  The upload buttons are disabled while a file is
\* being analysed.
HandleAudioFileSelect(n) ==
  /\ context.mounted
  /\ EffectsRun
  /\ ~isGenerating
  /\ context.selecting = Null
  /\ context.pending = {}
  /\ context' = [context EXCEPT
                   !.selecting = [length |-> Len(context.audio), left |-> n]]
  /\ ContextUnchanged

\* one turn of the loop of handleAudioFileSelect, entered when the analysis
\* awaited in the turn before has ended: the file is taken (its object URL
\* created, its analysis awaited) if persistentAudioFiles.length of the
\* closure is below 5, and refused with a toast otherwise
AudioFileVisited ==
  /\ context.selecting # Null
  /\ context.selecting.left > 0
  /\ context.pending = {}
  /\ Len(context.revoked) < MaxPickedUrls
  /\ context' =
       IF context.selecting.length < contextLimit["audio"]
       THEN [context EXCEPT
               !.selecting.left = @ - 1,
               !.revoked = Append(@, 0),
               !.pending = @ \cup {[kind |-> "audio", url |-> Len(context.revoked) + 1]}]
       ELSE [context EXCEPT !.selecting.left = @ - 1]
  /\ ContextUnchanged

\* the loop of handleAudioFileSelect has visited every file: the handler ends
AudioFilesDone ==
  /\ context.selecting # Null
  /\ context.selecting.left = 0
  /\ context.pending = {}
  /\ context' = [context EXCEPT !.selecting = Null]
  /\ ContextUnchanged

\* the 'stop' listener of the MediaRecorder, up to its await: the object URL
\* of the recording is created; the listener tests no length
RecordingStopped ==
  /\ context.mounted
  /\ EffectsRun
  /\ ~isGenerating
  /\ context.selecting = Null
  /\ context.pending = {}
  /\ Len(context.revoked) < MaxPickedUrls
  /\ context' = [context EXCEPT
                   !.revoked = Append(@, 0),
                   !.pending = @ \cup {[kind |-> "audio", url |-> Len(context.revoked) + 1]}]
  /\ ContextUnchanged

\* the Chat component is unmounted: the cleanup of the last effect runs
Unmount ==
  /\ context.mounted
  /\ context' = [context EXCEPT !.mounted = FALSE,
                                !.revoked = cleanupUrls(context, @)]
  /\ ContextUnchanged

(***************************************************************************)
(* The text functions applied to given arguments                           *)
(***************************************************************************)

\* user messages a redirect is chosen for
RedirectMessages ==
  { "my song", "the album cover", "I was inspired", "start again",
    "an early memory", "my family", "a relationship", "something difficult",
    "the process", "hello there", "my childhood music", "trauma and art" }

\* violation lists of validateResponse
ViolationLists ==
  { <<>>, <<CriticalPersonal>>, <<CriticalFabricating>>, <<WarnRoleConfusion>>,
    <<CriticalPersonal, WarnOverreach>>, <<CriticalFabricating, WarnMediaDetails>> }

\* texts the extractors are run on
ExtractTexts ==
  { "", "hello there", "I feel sad and lost about my song", "SAD sad Sad",
    "my childhood family trauma", "ty and safe", "lm and ca", "st but lo",
    "trust and control", "free" }

\* a response with every violation of validateResponse, no psychological
\* term and no question
ResponseAllFlags ==
  "I remember when I heard that the chorus hit me, as someone who has been there you should listen to it again and again every single day"

AssessResponses == { ReplyClean, ReplyWarn, ReplyUnfixable, ResponseAllFlags }

\* messages to score: k boundary violations, n patterns, e emotional markers
ScoredMessage(k, n, e) ==
  [ boundaryViolations |-> [i \in 1..k |-> CriticalPersonal],
    psychologicalPatterns |-> [i \in 1..n |-> patterns[i]],
    emotionalMarkers |-> [i \in 1..e |-> emotionalWords[i]] ]

AppliedUnchanged ==
  UNCHANGED << currentSession, sessions, isGenerating, inputText, selectedImages,
               currentConversationDepth, suggestedFollowUps, systemHealthScore,
               totalBoundaryViolations, stored, storageFull, nextSid, nextMid, now,
               development, tabulated, context, lastResponseQuality, sends >>

ApplySafeRedirect(userMessage, violations) ==
  /\ applied' = [ fn |-> "createSafeRedirectResponse", userMessage |-> userMessage,
                  violations |-> violations,
                  result |-> createSafeRedirectResponse(userMessage, violations) ]
  /\ AppliedUnchanged

\* the extractors on text and on text + text
ApplyExtract(text) ==
  /\ applied' = [ fn |-> "extract", text |-> text,
                  markers |-> extractEmotionalMarkers(text),
                  markersTwice |-> extractEmotionalMarkers(text \o text),
                  patterns |-> extractPsychologicalPatterns(text),
                  patternsTwice |-> extractPsychologicalPatterns(text \o text) ]
  /\ AppliedUnchanged

ApplyCalculateQuality(k, n, e) ==
  /\ applied' = [ fn |-> "calculateResponseQuality", message |-> ScoredMessage(k, n, e),
                  result |-> calculateResponseQuality(ScoredMessage(k, n, e)) ]
  /\ AppliedUnchanged

ApplyAssessQuality(response, userMessage) ==
  /\ applied' = [ fn |-> "assessResponseQuality", response |-> response,
                  violations |-> validateResponse(response, userMessage),
                  result |-> assessResponseQuality(response, userMessage) ]
  /\ AppliedUnchanged

(***************************************************************************)
(* The store called directly, operation by operation                       *)
(***************************************************************************)

\* the counters of boundary violations can take k more
RoomForViolations(k) ==
  /\ totalBoundaryViolations + k <= MaxViolations
  /\ currentSession # Null =>
       currentSession.conversationState.boundary_violations_count + k <= MaxViolations

\* the running average of the active session can be averaged once more
RoomForAverage ==
  currentSession # Null =>
    currentSession.conversationState.response_quality_average[2] < 2 ^ MaxHalvings

ApiSetCurrentSessionNull ==
  /\ currentSession # Null
  /\ Commit(setCurrentSession(St, Null))
  /\ ChatUnchanged

ApiDeleteSession(sessionId) ==
  /\ Commit(deleteSession(St, sessionId, storageFull))
  /\ ChatUnchanged

ApiAddMessage(role, content) ==
  /\ nextMid <= MaxStoreMessages
  /\ Commit(addMessage(St, role, content, now, storageFull))
  /\ ChatUnchanged

ApiUpdateLastMessage(content, validationScore, violations) ==
  /\ RoomForViolations(Len(violations))
  /\ RoomForAverage
  /\ Commit(updateLastMessage(St, content, validationScore, violations, now, storageFull))
  /\ ChatUnchanged

\* updateLastMessage with a list of violations of any length up to the bound
QualityUpdateLastMessage(content, validationScore, k) ==
  /\ totalBoundaryViolations + k <= MaxListedViolations
  /\ RoomForAverage
  /\ Commit(updateLastMessage(St, content, validationScore,
                              [i \in 1..k |-> CriticalPersonal], now, storageFull))
  /\ ChatUnchanged

ApiLoadSessions ==
  /\ Commit(loadSessions(St))
  /\ ChatUnchanged

ApiUpdateConversationState(updates) ==
  /\ Commit(updateConversationState(St, updates))
  /\ ChatUnchanged

ApiRecordBoundaryViolation ==
  /\ RoomForViolations(1)
  /\ Commit(recordBoundaryViolation(St))
  /\ ChatUnchanged

\* recordBoundaryViolation, called up to MaxRecorded times over the counters
\* as they stand
CountRecordBoundaryViolation ==
  /\ totalBoundaryViolations < MaxRecorded
  /\ currentSession # Null =>
       currentSession.conversationState.boundary_violations_count < MaxRecorded
  /\ Commit(recordBoundaryViolation(St))
  /\ ChatUnchanged

\* the arguments the direct calls are made with
ApiSessionTypes == { "music" }
ApiUserTexts == { "I feel sad and lost about my song" }
ApiAssistantTexts == { ReplyClean }
ApiUpdates ==
  { <<ReplyClean, 100, <<>> >>, <<ReplyUnfixable, 80, <<CriticalPersonal>> >> }
ApiStateUpdates == { [readiness_for_depth |-> "deep"] }

\* addMessage in the order sendMessage calls it: the user's message, then
\* the assistant's
ConverseAddMessage(role, content) ==
  /\ nextMid <= MaxHistory
  /\ currentSession # Null
  /\ role = (IF Len(currentSession.messages) % 2 = 0 THEN "user" ELSE "assistant")
  /\ content \in {TextPlain, ReplyClean}
     \/ Cardinality({k \in 1..Len(currentSession.messages) :
                       currentSession.messages[k].content \notin {TextPlain, ReplyClean}})
          < MaxMarkedMessages
  /\ Commit(addMessage(St, role, content, now, storageFull))
  /\ ChatUnchanged

(***************************************************************************)
(* Specifications                                                          *)
(***************************************************************************)

\* the application: sidebar and chat, text-only sends.  The clock stands
\* still: nothing on this path reads a timestamp back.
Next ==
  \/ \E type \in SessionTypes : nextSid <= MaxSessions /\ CreateNewSession(type)
  \/ \E i \in 1..MaxSessions : SetCurrentSession(i)
  \/ \E i \in 1..MaxSessions : DeleteSession(i)
  \/ \E text \in UserTexts : TypeInput(text)
  \/ \E p \in 1..MaxSends : \E starter \in StarterTexts \cup {""} : SendStart(p, starter)
  \/ \E p \in 1..MaxSends : \E response \in ReplyOutcomes : SendReply(p, response)

Spec == Init /\ [][Next]_vars

\* one sendMessage that may carry images, with the sidebar
EncodeNext ==
  \/ \E type \in SessionTypes : nextSid <= MaxSessions /\ CreateNewSession(type)
  \/ \E i \in 1..MaxSessions : SetCurrentSession(i)
  \/ \E i \in 1..MaxSessions : DeleteSession(i)
  \/ \E text \in UserTexts : TypeInput(text)
  \/ SelectImage
  \/ \E starter \in StarterTexts \cup {""} : SendStart(1, starter)
  \/ SendEncoded(1)
  \/ SendEncodeFail(1)
  \/ \E response \in ReplyOutcomes : SendReply(1, response)

EncodeSpec == Init /\ [][EncodeNext]_vars

\* the store alone, its operations called in any order, every write to
\* localStorage succeeding
StoreInit == Init /\ development = FALSE

StoreNext ==
  \/ Tick
  \/ \E type \in ApiSessionTypes : nextSid <= MaxSessions /\ CreateNewSession(type)
  \/ \E i \in 1..MaxSessions : SetCurrentSession(i)
  \/ ApiSetCurrentSessionNull
  \/ \E sessionId \in 1..MaxSessions : ApiDeleteSession(sessionId)
  \/ \E content \in ApiUserTexts : ApiAddMessage("user", content)
  \/ \E content \in ApiAssistantTexts : ApiAddMessage("assistant", content)
  \/ \E u \in ApiUpdates : ApiUpdateLastMessage(u[1], u[2], u[3])
  \/ ApiLoadSessions
  \/ \E updates \in ApiStateUpdates : ApiUpdateConversationState(updates)
  \/ ApiRecordBoundaryViolation

StoreSpec == StoreInit /\ [][StoreNext]_vars

\* the store over a localStorage whose quota can run out
PersistNext ==
  \/ Tick
  \/ StorageQuota
  \/ StorageDamaged
  \/ \E type \in SessionTypes : nextSid <= MaxSessions /\ CreateNewSession(type)
  \/ \E i \in 1..MaxSessions : SetCurrentSession(i)
  \/ \E sessionId \in 1..MaxSessions : ApiDeleteSession(sessionId)
  \/ \E content \in ApiUserTexts : ApiAddMessage("user", content)
  \/ ApiLoadSessions

PersistSpec == StoreInit /\ [][PersistNext]_vars

\* the session list alone: sessions created, activated and deleted
ListNext ==
  \/ Tick
  \/ \E type \in SessionTypes : nextSid <= MaxListedSessions /\ CreateNewSession(type)
  \/ \E i \in 1..MaxListedSessions : SetCurrentSession(i)
  \/ ApiSetCurrentSessionNull
  \/ \E sessionId \in 1..MaxListedSessions : ApiDeleteSession(sessionId)

ListSpec == StoreInit /\ [][ListNext]_vars

\* the chat with attachments: files are put into the contexts and taken out,
\* sessions are created and activated, one message is sent
ContextNext ==
  \/ \E type \in SessionTypes :
       context.mounted /\ nextSid <= MaxSessions /\ CreateNewSession(type)
  \/ \E i \in 1..MaxSessions : context.mounted /\ SetCurrentSession(i)
  \/ \E kind \in ContextKinds : SelectFile(kind)
  \/ \E kind \in ContextKinds : \E url \in 1..MaxUrls : FileAnalysed(kind, url)
  \/ \E kind \in ContextKinds : \E index \in 1..MaxUrls : RemoveFile(kind, index)
  \/ \E kind \in ContextKinds : ClearAllContext(kind)
  \/ SessionChangedEffect
  \/ Unmount
  \/ \E starter \in StarterTexts \cup {""} :
       context.mounted /\ EffectsRun /\ SendStart(1, starter)
  \/ \E response \in {[content |-> ReplyClean], Null} : SendReply(1, response)

ContextSpec == StoreInit /\ [][ContextNext]_vars

\* the text functions alone
TextNext ==
  \/ \E userMessage \in RedirectMessages : \E violations \in ViolationLists :
       ApplySafeRedirect(userMessage, violations)
  \/ \E text \in ExtractTexts : ApplyExtract(text)
  \/ \E k \in 0..MaxListedViolations : \E n \in {0, 3} : \E e \in {0, 1} :
       ApplyCalculateQuality(k, n, e)
  \/ \E response \in AssessResponses : ApplyAssessQuality(response, "my song")

TextSpec == StoreInit /\ [][TextNext]_vars

\* the quality scores: one of the two scoring functions applied once, and
\* the running average of a session whose last message is updated
QualityNext ==
  \/ \E k \in 0..MaxListedViolations : \E n \in {0, 3} : \E e \in {0, 1} :
       applied = Null /\ ApplyCalculateQuality(k, n, e)
  \/ \E response \in AssessResponses :
       applied = Null /\ ApplyAssessQuality(response, "my song")
  \/ \E type \in ApiSessionTypes : nextSid = 1 /\ CreateNewSession(type)
  \/ \E content \in ApiAssistantTexts : ApiAddMessage("assistant", content)
  \/ \E k \in 0..MaxListedViolations :
       QualityUpdateLastMessage(ReplyClean, 100, k)

QualitySpec == StoreInit /\ [][QualityNext]_vars

\* one long conversation: a session is created and messages are appended
ConverseNext ==
  \/ \E type \in ApiSessionTypes : nextSid = 1 /\ CreateNewSession(type)
  \/ \E content \in ConversationTexts : ConverseAddMessage("user", content)
  \/ \E content \in ApiAssistantTexts : ConverseAddMessage("assistant", content)

ConverseSpec == StoreInit /\ [][ConverseNext]_vars

\* the violation counters: sessions are created, activated and given
\* messages, violations are recorded, the collection is loaded
RecordNext ==
  \/ \E type \in ApiSessionTypes : nextSid <= MaxSessions /\ CreateNewSession(type)
  \/ \E i \in 1..MaxSessions : SetCurrentSession(i)
  \/ ApiSetCurrentSessionNull
  \/ \E content \in ApiUserTexts : ApiAddMessage("user", content)
  \/ ApiLoadSessions
  \/ CountRecordBoundaryViolation

RecordSpec == StoreInit /\ [][RecordNext]_vars

\* the attachment limits: images are picked for the next message, audio
\* files are picked and recorded into the audio context of a music session
LimitNext ==
  \/ nextSid = 1 /\ CreateNewSession("music")
  \/ SessionChangedEffect
  \/ \E n \in 1..MaxPicked : HandleFileSelect(n)
  \/ \E n \in 1..MaxPicked : HandleAudioFileSelect(n)
  \/ AudioFileVisited
  \/ AudioFilesDone
  \/ RecordingStopped
  \/ \E url \in 1..MaxPickedUrls : FileAnalysed("audio", url)

LimitSpec == StoreInit /\ [][LimitNext]_vars

(***************************************************************************)
(* Reading the collection                                                  *)
(***************************************************************************)

\* list.find(s => s.id === sid), or Null
sessionById(list, sid) ==
  IF \E i \in 1..Len(list) : list[i].id = sid
  THEN list[CHOOSE i \in 1..Len(list) : list[i].id = sid]
  ELSE Null

\* the message a placeholder reference names, in the collection list; Null
\* when its session or the message is not there
messageAt(list, ph) ==
  IF ph = Null THEN Null
  ELSE LET session == sessionById(list, ph.session)
       IN IF session = Null THEN Null
          ELSE IF \E k \in 1..Len(session.messages) : session.messages[k].id = ph.message
          THEN session.messages[CHOOSE k \in 1..Len(session.messages) :
                                  session.messages[k].id = ph.message]
          ELSE Null

\* the reply of send p carries a CRITICAL violation
FlaggedReply(p) ==
  /\ sends[p].reply # Null
  /\ criticalOf(violationsOf(sends[p].reply.content, sends[p].content)) # <<>>

\* the place of a depth label in the order surface < emerging < deep < integration
depthRank(label) ==
  CASE label = "surface" -> 0 [] label = "emerging" -> 1
    [] label = "deep" -> 2 [] label = "integration" -> 3

\* loadSessions would fail: nothing stored, or what is stored does not parse
LoadFails == stored = Null \/ ~parses(stored)

\* updateLastMessage would find nothing to update
NothingToUpdate ==
  \/ currentSession = Null
  \/ Len(currentSession.messages) = 0
  \/ currentSession.messages[Len(currentSession.messages)].role = "user"

(***************************************************************************)
(* Properties                                                              *)
(***************************************************************************)

\* C1: once a sendMessage whose reply the validator flagged CRITICAL has
\* finished, the content of the assistant message it appended is not the
\* flagged reply.
C1_FlaggedReplyNotStored ==
  [][\A p \in 1..MaxSends :
       (sends[p].pc = "waiting" /\ sends'[p].pc = "done"
          /\ sends'[p].reply # Null
          /\ criticalOf(violationsOf(sends'[p].reply.content, sends[p].content)) # <<>>
          /\ messageAt(sessions', sends[p].placeholder) # Null)
       => messageAt(sessions', sends[p].placeholder).content # sends'[p].reply.content]_vars

\* C1, the case reached: a flagged reply that correction clears was answered
C1_FlaggedReplyAnswered ==
  \E p \in 1..MaxSends :
    /\ sends[p].pc = "done"
    /\ FlaggedReply(p)
    /\ criticalOf(violationsOf(correctedOf(sends[p].reply.content), sends[p].content)) = <<>>

\* C2: if currentSession is not null, the collection holds a session with
\* its id.
C2_CurrentSessionListed ==
  currentSession # Null => sessionById(sessions, currentSession.id) # Null

\* C3: a session's updatedAt never decreases and is never earlier than its
\* createdAt, and its createdAt never changes.
C3_TimestampsMonotone ==
  [][\A i \in 1..Len(sessions) : \A j \in 1..Len(sessions') :
       sessions[i].id = sessions'[j].id
       => /\ sessions'[j].updatedAt >= sessions[i].updatedAt
          /\ sessions'[j].createdAt = sessions[i].createdAt
          /\ sessions'[j].updatedAt >= sessions'[j].createdAt]_vars

\* C4: a session holds at most one assistant message with empty content,
\* and that one is its last message.
C4_OneInProgressLast ==
  \A i \in 1..Len(sessions) :
    \A k \in 1..Len(sessions[i].messages) :
      (sessions[i].messages[k].role = "assistant" /\ sessions[i].messages[k].content = "")
      => k = Len(sessions[i].messages)

\* C5: updateLastMessage called with no active session, with an active
\* session without messages, or with a user message last, changes neither
\* the sessions, the active session, the violation counters nor the system
\* health score.
C5_UpdateLastMessageNoOp ==
  [][(NothingToUpdate /\ \E u \in ApiUpdates : ApiUpdateLastMessage(u[1], u[2], u[3]))
     => /\ sessions' = sessions
        /\ currentSession' = currentSession
        /\ totalBoundaryViolations' = totalBoundaryViolations
        /\ systemHealthScore' = systemHealthScore]_vars

\* C6: deleteSession(id) removes exactly the session with that id and keeps
\* the others in their order; the active session, when it was the deleted
\* one, becomes the first of the remaining sessions or null when none
\* remains, and is unchanged otherwise.
C6_DeleteSessionExact ==
  [][\A sessionId \in 1..MaxListedSessions :
       ApiDeleteSession(sessionId)
       => LET at == {i \in 1..Len(sessions) : sessions[i].id = sessionId}
          IN /\ Len(sessions') = Len(sessions) - Cardinality(at)
             /\ \A j \in 1..Len(sessions') : sessions'[j].id # sessionId
             /\ \A i \in 1..Len(sessions) :
                  sessions[i].id # sessionId
                  => sessions'[i - Cardinality({k \in at : k < i})] = sessions[i]
             /\ IF currentSession # Null /\ currentSession.id = sessionId
                THEN IF Len(sessions') = 0 THEN currentSession' = Null
                     ELSE currentSession' = sessions'[1]
                ELSE currentSession' = currentSession]_vars

\* C6, the case reached: of three sessions the middle one, active, was
\* deleted, and the newest of the two left is active
C6_MiddleDeleted ==
  /\ Len(sessions) = 2
  /\ sessions[1].id = 3
  /\ sessions[2].id = 1
  /\ currentSession = sessions[1]

\* C7: when a sendMessage ends, isGenerating is false and the placeholder it
\* appended has non-empty content; stated for the sends whose placeholder
\* is the last message of the active session when the reply arrives.
C7_SendEndsAnswered ==
  [][\A p \in 1..MaxSends :
       (sends[p].pc = "waiting" /\ sends'[p].pc = "done"
          /\ currentSession # Null
          /\ currentSession.id = sends[p].placeholder.session
          /\ currentSession.messages[Len(currentSession.messages)].id
               = sends[p].placeholder.message)
       => /\ ~isGenerating'
          /\ messageAt(sessions', sends[p].placeholder) # Null
          /\ messageAt(sessions', sends[p].placeholder).content # ""]_vars

\* C8: a sendMessage issues at most one request and appends one user message
\* followed by one assistant message to the session it was invoked in; when
\* the request fails, that assistant message, if its session is still there,
\* holds the fallback text.
C8_OneRequestOneExchange ==
  [][\A p \in 1..MaxSends :
       /\ sends'[p].requests <= 1
       /\ (sends[p].pc \in {"idle", "encoding"} /\ sends'[p].pc = "waiting")
          => LET invokedIn == IF sends[p].pc = "idle" THEN currentSession ELSE sends[p].closure
                 before == sessionById(sessions, invokedIn.id)
                 after == sessionById(sessions', invokedIn.id)
             IN before # Null
                => /\ after # Null
                   /\ Len(after.messages) = Len(before.messages) + 2
                   /\ SubSeq(after.messages, 1, Len(before.messages)) = before.messages
                   /\ after.messages[Len(before.messages) + 1].role = "user"
                   /\ after.messages[Len(before.messages) + 1].content = sends'[p].content
                   /\ after.messages[Len(before.messages) + 2].role = "assistant"
       /\ (sends[p].pc = "waiting" /\ sends'[p].pc = "done" /\ sends'[p].reply = Null
             /\ messageAt(sessions', sends[p].placeholder) # Null)
          => messageAt(sessions', sends[p].placeholder).content = errorResponse]_vars

\* C9: for the active session, currentConversationDepth and the session's
\* readiness_for_depth are the label assessConversationDepth's classifier
\* gives for the session's messages.
C9_DepthIsClassification ==
  currentSession # Null
  => /\ currentConversationDepth = assessDepthOf(currentSession.messages)
     /\ currentSession.conversationState.readiness_for_depth
          = assessDepthOf(currentSession.messages)

\* C10: the classifier of setCurrentSession and the classifier of
\* assessConversationDepth give the same label for the messages of a session.
C10_ClassifiersAgree ==
  \A i \in 1..Len(sessions) : assessDepth(sessions[i]) = assessDepthOf(sessions[i].messages)

\* C11: when messages are appended to a session, the label of
\* assessConversationDepth for its messages does not move backwards in the
\* order surface < emerging < deep < integration.
C11_DepthNeverRegresses ==
  [][\A i \in 1..Len(sessions) : \A j \in 1..Len(sessions') :
       (/\ sessions[i].id = sessions'[j].id
        /\ Len(sessions'[j].messages) > Len(sessions[i].messages)
        /\ SubSeq(sessions'[j].messages, 1, Len(sessions[i].messages)) = sessions[i].messages)
       => depthRank(assessDepthOf(sessions'[j].messages))
            >= depthRank(assessDepthOf(sessions[i].messages))]_vars

\* C11, the case reached: a history that went on growing after its label
\* had become deep
C11_GrownPastDeep ==
  /\ currentSession # Null
  /\ Len(currentSession.messages) = 12
  /\ assessDepthOf(currentSession.messages) = "deep"
  /\ assessDepthOf(SubSeq(currentSession.messages, 1, 8)) = "deep"

\* C12: assessConversationDepth returns surface below 4 messages or without
\* an active session; otherwise emerging below 8 messages or when no user
\* message has an emotional marker and none has more than two patterns;
\* otherwise deep below 15 messages or when no user message is a deep
\* exploration; otherwise integration.
C12_DepthLabel ==
  LET label == assessConversationDepthReturn(St)
      msgs == IF currentSession = Null THEN <<>> ELSE currentSession.messages
      n == Len(msgs)
      users == {k \in 1..n : msgs[k].role = "user"}
      marker == \E k \in users : msgs[k].emotionalMarkers # <<>>
      manyPatterns == \E k \in users : Len(msgs[k].psychologicalPatterns) >= 3
      exploration ==
        \E k \in users :
          /\ Len(msgs[k].content) >= 201
          /\ \E w \in {"childhood", "trauma", "family", "relationship"} :
               includes(toLowerCase(msgs[k].content), w)
  IN /\ n <= 3 => label = "surface"
     /\ (n >= 4 /\ (n <= 7 \/ (~marker /\ ~manyPatterns))) => label = "emerging"
     /\ (n >= 8 /\ (marker \/ manyPatterns) /\ (n <= 14 \/ ~exploration)) => label = "deep"
     /\ (n >= 15 /\ (marker \/ manyPatterns) /\ exploration) => label = "integration"

\* C12, the case reached: the fifteenth message makes the label integration
C12_IntegrationAtFifteen ==
  /\ currentSession # Null
  /\ Len(currentSession.messages) = 15
  /\ assessConversationDepthReturn(St) = "integration"

\* C13: saveSessionsToStorage followed by loadSessions gives the same
\* sessions in the same order, each with the same id, title, type,
\* createdAt, updatedAt and conversation state, and the same messages in the
\* same order with the same id, role, content and timestamp.
C13_SaveLoadRoundTrip ==
  LET back == loadSessions(saveSessionsToStorage(St, FALSE)).sessions
  IN /\ Len(back) = Len(sessions)
     /\ \A i \in 1..Len(sessions) :
          /\ back[i].id = sessions[i].id
          /\ back[i].title = sessions[i].title
          /\ back[i].type = sessions[i].type
          /\ back[i].createdAt = sessions[i].createdAt
          /\ back[i].updatedAt = sessions[i].updatedAt
          /\ back[i].conversationState = sessions[i].conversationState
          /\ Len(back[i].messages) = Len(sessions[i].messages)
          /\ \A k \in 1..Len(sessions[i].messages) :
               /\ back[i].messages[k].id = sessions[i].messages[k].id
               /\ back[i].messages[k].role = sessions[i].messages[k].role
               /\ back[i].messages[k].content = sessions[i].messages[k].content
               /\ back[i].messages[k].timestamp = sessions[i].messages[k].timestamp

\* C13, the case reached: two sessions, one of them created at 0, updated
\* at 1 and holding a user message and an assistant message, and the
\* collection in memory is the one read back from storage
C13_LoadedAfterSave ==
  /\ Len(sessions) = 2
  /\ stored # Null
  /\ sessions = loadSessions(St).sessions
  /\ \E i \in 1..2 :
       /\ sessions[i].createdAt = 0
       /\ sessions[i].updatedAt = 1
       /\ Len(sessions[i].messages) = 2
       /\ sessions[i].messages[1].role = "user"
       /\ sessions[i].messages[2].role = "assistant"

\* C15: when the write of saveSessionsToStorage fails, sessions and
\* currentSession are as the operation leaves them when the write succeeds,
\* and the stored entry is untouched; when loadSessions fails on missing or
\* malformed stored data, sessions, currentSession, totalBoundaryViolations
\* and systemHealthScore are unchanged.
C15_StorageFailureKeepsMemory ==
  [][/\ storageFull
        => /\ \A type \in SessionTypes :
                CreateNewSession(type)
                => /\ sessions' = createNewSession(St, type, now, FALSE).sessions
                   /\ currentSession' = createNewSession(St, type, now, FALSE).currentSession
                   /\ stored' = stored
           /\ \A content \in ApiUserTexts :
                ApiAddMessage("user", content)
                => /\ sessions' = addMessage(St, "user", content, now, FALSE).sessions
                   /\ currentSession' = addMessage(St, "user", content, now, FALSE).currentSession
                   /\ stored' = stored
           /\ \A sessionId \in 1..MaxSessions :
                ApiDeleteSession(sessionId)
                => /\ sessions' = deleteSession(St, sessionId, FALSE).sessions
                   /\ currentSession' = deleteSession(St, sessionId, FALSE).currentSession
                   /\ stored' = stored
     /\ (LoadFails /\ ApiLoadSessions)
        => /\ sessions' = sessions
           /\ currentSession' = currentSession
           /\ totalBoundaryViolations' = totalBoundaryViolations
           /\ systemHealthScore' = systemHealthScore]_vars

\* C15, the case reached: a session was created and given a message while
\* writes failed, nothing was ever stored, and memory holds the session
C15_UnsavedSessionKept ==
  /\ storageFull
  /\ stored = Null
  /\ currentSession # Null
  /\ Len(currentSession.messages) = 1
  /\ sessions = <<currentSession>>

\* C14: what saveSessionsToStorage writes holds, for every attachment of
\* every message (audio, visual or document), no object URL and no file
\* handle.
C14_NoHandleOrUrlPersisted ==
  (stored # Null /\ parses(stored))
  => \A i \in 1..Len(stored.json) : \A k \in 1..Len(stored.json[i].messages) :
       LET msg == stored.json[i].messages[k]
           files == msg.audioFiles \o msg.visualFiles \o msg.documentFiles
       IN \A a \in 1..Len(files) :
            /\ "url" \notin DOMAIN files[a]
            /\ "file" \in DOMAIN files[a] => files[a].file = <<>>

\* C20: an object URL is never released twice, and it has been released
\* once when its attachment is no longer in a context (nor on its way into
\* one) or the Chat component is unmounted.
C20_UrlReleasedOnce ==
  \A u \in 1..Len(context.revoked) :
    LET held == \/ \E kind \in ContextKinds :
                     \/ \E i \in 1..Len(context[kind]) : context[kind][i] = u
                     \/ [kind |-> kind, url |-> u] \in context.pending
    IN /\ context.revoked[u] <= 1
       /\ (~held \/ ~context.mounted) => context.revoked[u] = 1

\* C19: after addMessage of a user message to the active session,
\* suggestedFollowUps holds between 1 and 3 follow-up strings.
C19_OneToThreeFollowUps ==
  [][\A content \in ConversationTexts :
       ConverseAddMessage("user", content)
       => Len(suggestedFollowUps') \in 1..3]_vars

\* C16: createSafeRedirectResponse returns the non-empty entry of the
\* redirect table chosen by testing the user message in the order
\* music/album/song, creative/art, childhood/family, attachment/relationship,
\* trauma/difficult, otherwise the generic fallback, whatever the violation
\* list holds.
C16_RedirectByMessage ==
  (applied # Null /\ applied.fn = "createSafeRedirectResponse")
  => LET lowerMessage == toLowerCase(applied.userMessage)
         has(w) == includes(lowerMessage, w)
         expected ==
           IF has("music") \/ has("album") \/ has("song")
           THEN PSYCHOLOGICAL_REDIRECTS.music_influence
           ELSE IF has("creative") \/ has("art")
           THEN PSYCHOLOGICAL_REDIRECTS.creative_inspiration
           ELSE IF has("childhood") \/ has("family")
           THEN PSYCHOLOGICAL_REDIRECTS.formative_experience
           ELSE IF has("attachment") \/ has("relationship")
           THEN PSYCHOLOGICAL_REDIRECTS.attachment_pattern
           ELSE IF has("trauma") \/ has("difficult")
           THEN PSYCHOLOGICAL_REDIRECTS.trauma_processing
           ELSE PSYCHOLOGICAL_REDIRECTS.emotional_connection
     IN applied.result # "" /\ applied.result = expected

\* C17: the extractors return a duplicate-free list of words of their
\* vocabulary, and for a text concatenated with itself the set they return
\* for the text.
C17_ExtractionOfDoubledText ==
  (applied # Null /\ applied.fn = "extract")
  => LET Set(seq) == {seq[i] : i \in 1..Len(seq)}
     IN /\ Cardinality(Set(applied.markers)) = Len(applied.markers)
        /\ Cardinality(Set(applied.patterns)) = Len(applied.patterns)
        /\ Set(applied.markers) \subseteq Set(emotionalWords)
        /\ Set(applied.patterns) \subseteq Set(patterns)
        /\ Set(applied.markersTwice) = Set(applied.markers)
        /\ Set(applied.patternsTwice) = Set(applied.patterns)

\* C18: the scores of calculateResponseQuality and assessResponseQuality are
\* within 0..100, and so is the running response_quality_average of every
\* session.
C18_ScoresWithinRange ==
  /\ (applied # Null /\ applied.fn \in {"calculateResponseQuality", "assessResponseQuality"})
     => applied.result \in 0..100
  /\ \A i \in 1..Len(sessions) :
       /\ RatLeq(RatInt(0), sessions[i].conversationState.response_quality_average)
       /\ RatLeq(sessions[i].conversationState.response_quality_average, RatInt(100))

\* C18, the case reached: a message with seven violations was scored, where
\* the clamp at 0 decides, and the average of a session has been halved by
\* such a message
C18_ClampedAndAveraged ==
  /\ applied # Null
  /\ applied.fn = "calculateResponseQuality"
  /\ Len(applied.message.boundaryViolations) = 7
  /\ applied.result = 0
  /\ \E i \in 1..Len(sessions) :
       sessions[i].conversationState.response_quality_average = RatInt(50)

\* C21: whenever the active session changes to a different session (by
\* createNewSession, setCurrentSession or deleteSession falling back), the
\* pending input text is empty, no image is selected and the list of
\* suggested follow-ups is empty.
C21_SessionSwitchResetsUi ==
  [][(/\ currentSession' # Null
      /\ currentSession = Null \/ currentSession.id # currentSession'.id)
     => /\ inputText' = ""
        /\ selectedImages' = 0
        /\ suggestedFollowUps' = <<>>]_vars

\* C22: the collection is ordered most recent first: of any two sessions the
\* one at the lower index has the later or equal updatedAt.
C22_MostRecentFirst ==
  \A i \in 1..Len(sessions) : \A j \in 1..Len(sessions) :
    i < j => sessions[i].updatedAt >= sessions[j].updatedAt

\* C23: an append of a user message to a session without an earlier user
\* message sets the title to the first 60 characters of the message, followed
\* by "..." exactly when the message is longer, also when an assistant message
\* was appended before it; every other append leaves the title as it was.
C23_TitleFromFirstUserMessage ==
  [][\A role \in {"user", "assistant"} :
       \A content \in ApiUserTexts \cup ApiAssistantTexts :
         (currentSession # Null /\ ApiAddMessage(role, content))
         => currentSession'.title =
              IF role = "user" /\ userMessagesOf(currentSession.messages) = <<>>
              THEN substring0(content, 60) \o (IF Len(content) > 60 THEN "..." ELSE "")
              ELSE currentSession.title]_vars

\* the message list new continues the list old: it is at least as long, the
\* messages of old keep their ids, roles and places, and the only content
\* that differs is that of an assistant message that was the last of old
growsAtEnd(old, new) ==
  /\ Len(new) >= Len(old)
  /\ \A k \in 1..Len(old) :
       /\ new[k].id = old[k].id
       /\ new[k].role = old[k].role
       /\ new[k].content # old[k].content
          => old[k].role = "assistant" /\ k = Len(old)

\* C24: each session's message list only grows at the end: ids, roles and
\* places of its messages never change, the content of a user message never
\* changes, and the only content that changes is that of an assistant
\* message while it is the last message of its session.
C24_MessagesAppendOnly ==
  [][/\ \A i \in 1..Len(sessions) : \A j \in 1..Len(sessions') :
          sessions[i].id = sessions'[j].id
          => growsAtEnd(sessions[i].messages, sessions'[j].messages)
     /\ (currentSession # Null /\ currentSession' # Null
           /\ currentSession.id = currentSession'.id)
        => growsAtEnd(currentSession.messages, currentSession'.messages)]_vars

\* clamp(100 - 10 * (100 * totalViolations / totalMessages), 0, 100), the rate
\* taken as 0 when there is no message, as an exact rational
clampedHealth(totalViolations, list) ==
  LET totalMessages == totalMessagesOf(list)
      raw == 100 * totalMessages - 1000 * totalViolations
  IN IF totalMessages = 0 THEN RatInt(100)
     ELSE IF raw < 0 THEN RatInt(0)
     ELSE Rat(raw, totalMessages)

\* C25: recordBoundaryViolation increases totalBoundaryViolations by 1 and
\* the active session's boundary_violations_count by 1, in currentSession
\* and in its entry in sessions, leaves every other session unchanged, and
\* leaves systemHealthScore equal to 100 - 10 * (violations per 100 messages)
\* clamped to 0..100.
C25_RecordBoundaryViolationExact ==
  [][CountRecordBoundaryViolation
     => /\ totalBoundaryViolations' = totalBoundaryViolations + 1
        /\ Len(sessions') = Len(sessions)
        /\ currentSession # Null
           => /\ currentSession' # Null
              /\ currentSession'.conversationState.boundary_violations_count
                   = currentSession.conversationState.boundary_violations_count + 1
        /\ \A i \in 1..Len(sessions) :
             IF currentSession # Null /\ sessions[i].id = currentSession.id
             THEN sessions'[i].conversationState.boundary_violations_count
                    = sessions[i].conversationState.boundary_violations_count + 1
             ELSE sessions'[i] = sessions[i]
        /\ systemHealthScore' = clampedHealth(totalBoundaryViolations', sessions')]_vars

\* C26: what a sendMessage writes when its request ends goes into the
\* assistant placeholder it appended and nowhere else: the placeholder, if
\* its session is still in the collection, is filled, and no other message
\* of any session is modified, whatever session is active by then.
C26_ReplyIntoOwnPlaceholder ==
  [][\A p \in 1..MaxSends :
       (sends[p].pc = "waiting" /\ sends'[p].pc = "done" /\ sends[p].placeholder # Null)
       => /\ messageAt(sessions, sends[p].placeholder) # Null
             => messageAt(sessions', sends[p].placeholder).content # ""
          /\ \A i \in 1..Len(sessions) : \A k \in 1..Len(sessions[i].messages) :
               (sessions[i].id # sends[p].placeholder.session
                  \/ sessions[i].messages[k].id # sends[p].placeholder.message)
               => sessions'[i].messages[k] = sessions[i].messages[k]]_vars

\* C27: whenever currentSession is not null, it is identical (title,
\* messages, timestamps, conversation state) to the entry of the collection
\* that has its id.
C27_CurrentSessionIsItsEntry ==
  currentSession # Null
  => \A i \in 1..Len(sessions) :
       sessions[i].id = currentSession.id => sessions[i] = currentSession

\* C28: selectedImages never holds more than 5 files and the audio context
\* never holds more than 5 files.
C28_AttachmentLimits ==
  /\ selectedImages <= 5
  /\ Len(context.audio) <= 5

\* the messages of list as a request carries earlier messages: role and content
asHistory(list) ==
  [i \in 1..Len(list) |-> [role |-> list[i].role, content |-> list[i].content]]

\* C29: the request of a sendMessage carries the full analysis prompt
\* (createAnalysisPrompt) exactly when the message sent is the first message
\* of its session; for every later message it carries the most recent
\* earlier messages followed by the current user message, once, and at most
\* 6 messages in all.
C29_RequestBody ==
  \A p \in 1..MaxSends :
    sends[p].pc = "waiting"
    => LET before == sends[p].closure.messages
           request == sends[p].request
           last == request[Len(request)]
       IN /\ Len(request) >= 1
          /\ last.role = "user"
          /\ last.content.text = sends[p].content
          /\ last.content.template = "USER DESCRIPTION" <=> Len(before) = 0
          /\ Len(before) > 0
             => /\ Len(request) <= 6
                /\ SubSeq(request, 1, Len(request) - 1)
                     = asHistory(sliceLast(before, Min(5, Len(before))))

\* the object URLs of the attachments of message m
urlsOfMessage(m) ==
  {m.audioFiles[i].url : i \in 1..Len(m.audioFiles)}
    \cup {m.visualFiles[i].url : i \in 1..Len(m.visualFiles)}
    \cup {m.documentFiles[i].url : i \in 1..Len(m.documentFiles)}

\* object URL u is in use: its attachment is in one of the contexts of the
\* mounted Chat component, or on a message of a session
urlInUse(u) ==
  \/ /\ context.mounted
     /\ \E kind \in ContextKinds : \E i \in 1..Len(context[kind]) : context[kind][i] = u
  \/ \E s \in 1..Len(sessions) : \E k \in 1..Len(sessions[s].messages) :
       [blob |-> u] \in urlsOfMessage(sessions[s].messages[k])

\* C30: no object URL has been revoked while its attachment is still in a
\* context list or on a message of a session.
C30_NoUrlRevokedInUse ==
  \A u \in 1..Len(context.revoked) : urlInUse(u) => context.revoked[u] = 0

====
